---- MODULE Spec2Model ----
(***************************************************************************)
(* Rassam: the graph layout step of src/app/api/repo/route.ts.             *)
(*                                                                         *)
(* getLayoutedElements builds a dagre graph from the node and edge lists,  *)
(* runs dagre.layout on it and maps every node to its top-left position.   *)
(* POST /api/repo lays out the graph produced by the AI analysis, PUT      *)
(* /api/repo lays out a graph sent by the client.                          *)
(*                                                                         *)
(* dagre (0.8.x) is a dependency of the repository; its layout pipeline is *)
(* modelled here phase by phase for flat graphs (no clusters), which is    *)
(* all route.ts ever builds.  Lengths are integers counting HALF pixels,   *)
(* so that the one division dagre performs on coordinates (the mean of two *)
(* alignments) stays exact: a node of width 280 is 560 half pixels wide.   *)
(***************************************************************************)
EXTENDS Integers, Sequences, FiniteSets, TLC

(***************************************************************************)
(* Bounds of the model.                                                    *)
(***************************************************************************)
\* the longest edge list of a well-formed request
MaxEdges == 2
\* the longest node list of a request with malformed parts and of an AI
\* analysis
MaxRawNodes == 2
\* the number of calls SpecCalls follows one server process through
MaxCalls == 3
\* the longest chain of a request made of two chains
MaxChain == 3
\* the longest history of a chat request
MaxHistoryLen == 23
\* the most nodes and the most edges of an imported file
MaxImportNodes == 3
MaxImportEdges == 2

(***************************************************************************)
(* Program constants (pixels).                                             *)
(***************************************************************************)
baseWidth == 280
baseHeight == 100
extraHeightPx == 30
filesThreshold == 5
nodesep == 80
ranksep == 100
edgesep == 30
marginx == 50
marginy == 50
\* dagre's default edge label offset (edgeDefaults.labeloffset)
labeloffset == 10
\* chat/route.ts 135
MAX_HISTORY == 20

\* half pixels in a pixel
HalfPx(px) == 2 * px

(***************************************************************************)
(* Generic helpers on sequences.                                           *)
(***************************************************************************)
Range(s) == {s[i] : i \in 1..Len(s)}

\* position of the first element of s equal to e, 0 when there is none
IndexOf(s, e) ==
  IF \E i \in 1..Len(s) : s[i] = e
  THEN CHOOSE i \in 1..Len(s) : s[i] = e /\ \A j \in 1..(i - 1) : s[j] # e
  ELSE 0

Max2(a, b) == IF a >= b THEN a ELSE b
Min2(a, b) == IF a <= b THEN a ELSE b
SetMax(S) == CHOOSE m \in S : \A k \in S : k <= m
SetMin(S) == CHOOSE m \in S : \A k \in S : m <= k

\* the sequence s as an explicit tuple (evaluated once, not at every use)
Tup(s) == s \o <<>>

Reverse(s) == Tup([i \in 1..Len(s) |-> s[Len(s) + 1 - i]])

(***************************************************************************)
(* Values of the request.                                                  *)
(***************************************************************************)
\* a JavaScript undefined (a field that is absent from the JSON)
Undefined == "undefined"
\* a direction value that is not a string (a JSON number)
NotAString == "<number>"

\* graphlib stores nodes under their string key: undefined becomes "undefined"
NodeKey(id) == IF id = Undefined THEN "undefined" ELSE id

\* dimensions that do not look at the file list
baseDimensions(node) == [width |-> baseWidth, height |-> baseHeight]

(***************************************************************************)
(* getNodeDimensions (route.ts 12-18), in pixels.  node.files is the       *)
(* length of node.data.files, 0 when data or files is absent.              *)
(***************************************************************************)
getNodeDimensions(node) ==
  LET filesCount == node.files
      extraHeight == IF filesCount > filesThreshold THEN extraHeightPx ELSE 0
  IN [width |-> baseWidth, height |-> baseHeight + extraHeight]

(***************************************************************************)
(* graphlib.Graph as route.ts uses it: a directed graph that is neither a  *)
(* multigraph nor compound.  nodes is the key list in insertion order,     *)
(* label[i] the label of nodes[i] (NoLabel when the node was created by    *)
(* setEdge), edges the list of <<v, w>> key pairs in insertion order.      *)
(***************************************************************************)
NoLabel == [width |-> -1, height |-> -1]

graphlibGraph == [nodes |-> <<>>, label |-> <<>>, edges |-> <<>>]

\* Graph.setNode(v, label): a new key is appended, a known key is relabelled
setNode(g, v, lab) ==
  LET k == NodeKey(v)
      i == IndexOf(g.nodes, k)
  IN IF i = 0
     THEN [g EXCEPT !.nodes = Append(@, k), !.label = Append(@, lab)]
     ELSE [g EXCEPT !.label[i] = lab]

\* Graph.setNode(v) without a label: creates the node when it is unknown
ensureNode(g, v) ==
  IF IndexOf(g.nodes, NodeKey(v)) = 0
  THEN [g EXCEPT !.nodes = Append(@, NodeKey(v)), !.label = Append(@, NoLabel)]
  ELSE g

\* Graph.setEdge called with source and target in each other's place
setEdgeReversed(g, v, w) ==
  LET g2 == ensureNode(ensureNode(g, w), v)
      e == <<NodeKey(w), NodeKey(v)>>
  IN IF IndexOf(g2.edges, e) = 0 THEN [g2 EXCEPT !.edges = Append(@, e)] ELSE g2

\* Graph.setEdge(v, w): creates both end nodes when they are unknown; a second
\* edge between the same pair only replaces the (empty) label of the first
setEdge(g, v, w) ==
  LET g2 == ensureNode(ensureNode(g, v), w)
      e == <<NodeKey(v), NodeKey(w)>>
  IN IF IndexOf(g2.edges, e) = 0 THEN [g2 EXCEPT !.edges = Append(@, e)] ELSE g2

RECURSIVE setNodes(_, _, _)
\* nodes.forEach(node => dagreGraph.setNode(node.id, getNodeDimensions(node)))
setNodes(g, nodes, i) ==
  IF i > Len(nodes) THEN g
  ELSE setNodes(setNode(g, nodes[i].id, getNodeDimensions(nodes[i])), nodes, i + 1)

RECURSIVE setEdges(_, _, _)
\* edges.forEach(edge => dagreGraph.setEdge(edge.source, edge.target))
setEdges(g, edges, i) ==
  IF i > Len(edges) THEN g
  ELSE setEdges(setEdge(g, edges[i].source, edges[i].target), edges, i + 1)

(***************************************************************************)
(* dagre.layout, phase 1: the layout graph.                                *)
(*                                                                         *)
(* A layout graph is [nodes, edges].  Nodes are numbered in insertion      *)
(* order (dagre iterates g.nodes() and g.edges() in insertion order);      *)
(* a node is [key, dummy, width, height, selfEdge, rank, order, x, y] with *)
(* dummy = "" for a node of the input graph; an edge is [v, w, minlen,     *)
(* weight, reversed] over node numbers.  width and height are pixels.      *)
(***************************************************************************)
layoutNode(key, dummy, width, height, rank, order) ==
  [key |-> key, dummy |-> dummy, width |-> width, height |-> height,
   selfEdge |-> FALSE, rank |-> rank, order |-> order, x |-> 0, y |-> 0]

\* buildLayoutGraph (dagre/lib/layout.js): node sizes default to 0 when the
\* input label has none (a node created by setEdge has no label at all);
\* edgeDefaults give minlen 1 and weight 1
buildLayoutGraph(ig) ==
  [nodes |-> Tup([i \in 1..Len(ig.nodes) |->
                layoutNode(ig.nodes[i], "",
                           IF ig.label[i] = NoLabel THEN 0 ELSE ig.label[i].width,
                           IF ig.label[i] = NoLabel THEN 0 ELSE ig.label[i].height,
                           0, 0)]),
   edges |-> Tup([j \in 1..Len(ig.edges) |->
                [v |-> IndexOf(ig.nodes, ig.edges[j][1]),
                 w |-> IndexOf(ig.nodes, ig.edges[j][2]),
                 minlen |-> 1, weight |-> 1, reversed |-> FALSE]])]

\* no space made for edge labels: every minlen stays
keepMinlen(g) == g

\* makeSpaceForEdgeLabels: ranksep is halved (see positionY) and every
\* minlen doubled
makeSpaceForEdgeLabels(g) ==
  [g EXCEPT !.edges = Tup([j \in 1..Len(g.edges) |->
                         [g.edges[j] EXCEPT !.minlen = 2 * @]])]

\* removeSelfEdges: a self loop is taken out of the graph and remembered on
\* its node
removeSelfEdges(g) ==
  [nodes |-> Tup([i \in 1..Len(g.nodes) |->
                [g.nodes[i] EXCEPT !.selfEdge =
                   \E j \in 1..Len(g.edges) : g.edges[j].v = i /\ g.edges[j].w = i]]),
   edges |-> SelectSeq(g.edges, LAMBDA e : e.v # e.w)]

\* g.outEdges(v), as edge numbers in insertion order
outEdgeIdx(g, v) ==
  LET S == {j \in 1..Len(g.edges) : g.edges[j].v = v}
  IN Tup([k \in 1..Cardinality(S) |->
        CHOOSE j \in S : Cardinality({i \in S : i < j}) = k - 1])

RECURSIVE dfsFASVisit(_, _, _, _)
RECURSIVE dfsFASEdges(_, _, _, _)
\* dfsFAS (dagre/lib/acyclic.js): depth-first search from every node in
\* order; an edge that leads to a node on the stack joins the feedback arc
\* set.  st is [visited, fas]; stack is the set of nodes on the DFS stack.
dfsFASVisit(g, v, stack, st) ==
  IF v \in st.visited THEN st
  ELSE dfsFASEdges(g, outEdgeIdx(g, v), stack \cup {v},
                   [st EXCEPT !.visited = @ \cup {v}])

dfsFASEdges(g, es, stack, st) ==
  IF es = <<>> THEN st
  ELSE IF g.edges[Head(es)].w \in stack
       THEN dfsFASEdges(g, Tail(es), stack, [st EXCEPT !.fas = Append(@, Head(es))])
       ELSE dfsFASEdges(g, Tail(es), stack,
                        dfsFASVisit(g, g.edges[Head(es)].w, stack, st))

RECURSIVE dfsFASFrom(_, _, _)
dfsFASFrom(g, v, st) ==
  IF v > Len(g.nodes) THEN st.fas
  ELSE dfsFASFrom(g, v + 1, dfsFASVisit(g, v, {}, st))

dfsFAS(g) == dfsFASFrom(g, 1, [visited |-> {}, fas |-> <<>>])

\* acyclic.run: every edge of the feedback arc set is removed and added
\* again, reversed, after the edges that stay
acyclicRun(g) ==
  LET fas == dfsFAS(g)
      keep == SelectSeq(Tup([j \in 1..Len(g.edges) |-> j]), LAMBDA j : j \notin Range(fas))
  IN [g EXCEPT !.edges =
        Tup([k \in 1..Len(keep) |-> g.edges[keep[k]]]) \o
        Tup([k \in 1..Len(fas) |->
           [g.edges[fas[k]] EXCEPT !.v = g.edges[fas[k]].w,
                                   !.w = g.edges[fas[k]].v,
                                   !.reversed = TRUE]])]

(***************************************************************************)
(* dagre.layout, phase 2: ranks (dagre/lib/rank).                          *)
(*                                                                         *)
(* nestingGraph.run adds a root node with an edge of weight 0 and minlen 1 *)
(* to every node; the ranker works on the simplified graph (parallel edges *)
(* merged: weights added, the larger minlen kept).  The ranker is          *)
(* longestPath followed by feasibleTree: on the graphs within the bounds   *)
(* of this model the tight tree is already optimal, so the pivoting loop   *)
(* of the network simplex has no edge with a negative cut value to remove. *)
(***************************************************************************)
RECURSIVE simplifyFrom(_, _, _)
simplifyFrom(es, j, acc) ==
  IF j > Len(es) THEN acc
  ELSE LET e == es[j]
           S == {k \in 1..Len(acc) : acc[k].v = e.v /\ acc[k].w = e.w}
       IN IF S = {}
          THEN simplifyFrom(es, j + 1,
                 Append(acc, [v |-> e.v, w |-> e.w,
                              weight |-> e.weight, minlen |-> Max2(1, e.minlen)]))
          ELSE LET k == CHOOSE k \in S : TRUE
               IN simplifyFrom(es, j + 1,
                    [acc EXCEPT ![k].weight = @ + e.weight,
                                ![k].minlen = Max2(@, e.minlen)])

\* the edges the ranker sees: the graph's edges, then root -> v for every v
rankEdges(g) ==
  LET n == Len(g.nodes)
  IN simplifyFrom(Tup([j \in 1..Len(g.edges) |->
                     [v |-> g.edges[j].v, w |-> g.edges[j].w,
                      weight |-> g.edges[j].weight, minlen |-> g.edges[j].minlen]])
                  \o Tup([i \in 1..n |-> [v |-> n + 1, w |-> i, weight |-> 0, minlen |-> 1]]),
                  1, <<>>)

RECURSIVE longestPathRank(_, _)
\* longestPath (rank/util.js): a sink has rank 0, any other node the least
\* of rank(w) - minlen over its out edges
longestPathRank(es, v) ==
  LET out == {j \in 1..Len(es) : es[j].v = v}
  IN IF out = {} THEN 0
     ELSE SetMin({longestPathRank(es, es[j].w) - es[j].minlen : j \in out})

slack(es, rank, j) == rank[es[j].w] - rank[es[j].v] - es[j].minlen

RECURSIVE tightTree(_, _, _)
\* tightTree (rank/feasible-tree.js): the tree grows along edges of slack 0
tightTree(es, rank, T) ==
  LET new == {v \in DOMAIN rank \ T :
                \E j \in 1..Len(es) :
                   /\ slack(es, rank, j) = 0
                   /\ \/ es[j].v = v /\ es[j].w \in T
                      \/ es[j].w = v /\ es[j].v \in T}
  IN IF new = {} THEN T ELSE tightTree(es, rank, T \cup new)

RECURSIVE feasibleTree(_, _, _)
\* rank without feasibleTree: the ranks of longestPath stay
longestPathOnly(es, rank, T0) == rank

\* feasibleTree: while the tight tree does not span the graph, the first
\* edge of least slack that leaves the tree is made tight by shifting the
\* ranks of the tree
feasibleTree(es, rank, T0) ==
  LET T == tightTree(es, rank, T0)
  IN IF T = DOMAIN rank THEN rank
     ELSE LET cross == {j \in 1..Len(es) : (es[j].v \in T) # (es[j].w \in T)}
              least == SetMin({slack(es, rank, j) : j \in cross})
              e == SetMin({j \in cross : slack(es, rank, j) = least})
              delta == IF es[e].v \in T THEN least ELSE -least
          IN feasibleTree(es, Tup([v \in DOMAIN rank |->
                                 IF v \in T THEN rank[v] + delta ELSE rank[v]]), T)

\* rank, nestingGraph.cleanup and normalizeRanks: the ranks of the nodes,
\* the least of them 0
rankOf(g) ==
  LET n == Len(g.nodes)
      es == rankEdges(g)
      r0 == Tup([v \in 1..(n + 1) |-> longestPathRank(es, v)])
      r == feasibleTree(es, r0, {1})
      low == SetMin({r[v] : v \in 1..n})
  IN Tup([v \in 1..n |-> r[v] - low])

rank(g) ==
  IF Len(g.nodes) = 0 THEN g
  ELSE LET r == rankOf(g)
       IN [g EXCEPT !.nodes = Tup([i \in 1..Len(g.nodes) |-> [g.nodes[i] EXCEPT !.rank = r[i]]])]

(***************************************************************************)
(* dagre.layout, phase 3: long edges become chains of dummy nodes          *)
(* (dagre/lib/normalize.js).  Edge labels have no area here (edge.width or *)
(* edge.height is 0), so no label rank is reserved and every dummy is a    *)
(* plain "edge" dummy of size 0.  After this phase every edge spans one    *)
(* rank.                                                                   *)
(***************************************************************************)
RECURSIVE normalizeEdge(_, _, _, _, _)
\* the chain for one edge: prev is the last node of the chain so far, r the
\* rank of the next node
normalizeEdge(acc, prev, w, weight, r) ==
  IF r = acc.nodes[w].rank
  THEN [acc EXCEPT !.edges = Append(@, [v |-> prev, w |-> w, weight |-> weight])]
  ELSE LET d == Len(acc.nodes) + 1
       IN normalizeEdge(
            [nodes |-> Append(acc.nodes, layoutNode("_d", "edge", 0, 0, r, 0)),
             edges |-> Append(acc.edges, [v |-> prev, w |-> d, weight |-> weight])],
            d, w, weight, r + 1)

RECURSIVE normalizeFrom(_, _, _)
normalizeFrom(g, j, acc) ==
  IF j > Len(g.edges) THEN acc
  ELSE LET e == g.edges[j]
       IN IF g.nodes[e.w].rank - g.nodes[e.v].rank = 1
          THEN normalizeFrom(g, j + 1, acc)
          ELSE normalizeFrom(g, j + 1,
                 normalizeEdge(acc, e.v, e.w, e.weight, g.nodes[e.v].rank + 1))

normalizeRun(g) ==
  LET short == SelectSeq(g.edges, LAMBDA e : g.nodes[e.w].rank - g.nodes[e.v].rank = 1)
  IN normalizeFrom(g, 1,
       [nodes |-> g.nodes,
        edges |-> Tup([k \in 1..Len(short) |->
                     [v |-> short[k].v, w |-> short[k].w, weight |-> short[k].weight]])])

(***************************************************************************)
(* dagre.layout, phase 4: the order of the nodes of a rank                 *)
(* (dagre/lib/order).                                                      *)
(***************************************************************************)
\* the members of a set of numbers, ascending
SortedSeq(S) ==
  Tup([k \in 1..Cardinality(S) |-> CHOOSE j \in S : Cardinality({i \in S : i < j}) = k - 1])

maxRank(g) == SetMax({g.nodes[i].rank : i \in 1..Len(g.nodes)})

\* g.successors(v) and g.predecessors(v): each neighbour once, in the order
\* of its first edge
successors(g, v) ==
  LET first == {j \in 1..Len(g.edges) :
                  /\ g.edges[j].v = v
                  /\ \A k \in 1..(j - 1) : ~(g.edges[k].v = v /\ g.edges[k].w = g.edges[j].w)}
      js == SortedSeq(first)
  IN Tup([k \in 1..Len(js) |-> g.edges[js[k]].w])

predecessors(g, v) ==
  LET first == {j \in 1..Len(g.edges) :
                  /\ g.edges[j].w = v
                  /\ \A k \in 1..(j - 1) : ~(g.edges[k].w = v /\ g.edges[k].v = g.edges[j].v)}
      js == SortedSeq(first)
  IN Tup([k \in 1..Len(js) |-> g.edges[js[k]].v])

\* util.buildLayerMatrix: the nodes of rank r by ascending order
layerOf(g, r) ==
  LET S == {i \in 1..Len(g.nodes) : g.nodes[i].rank = r}
  IN Tup([k \in 1..Cardinality(S) |->
        CHOOSE i \in S : Cardinality({j \in S : g.nodes[j].order < g.nodes[i].order}) = k - 1])

RECURSIVE initOrderVisit(_, _, _)
RECURSIVE initOrderVisitAll(_, _, _)
\* initOrder (order/init-order.js): depth-first search along successors; acc
\* is the list of visited nodes, in the order of the visits
initOrderVisit(g, v, acc) ==
  IF v \in Range(acc) THEN acc
  ELSE initOrderVisitAll(g, successors(g, v), Append(acc, v))

initOrderVisitAll(g, vs, acc) ==
  IF vs = <<>> THEN acc
  ELSE initOrderVisitAll(g, Tail(vs), initOrderVisit(g, Head(vs), acc))

\* the search starts from the nodes by ascending rank (a stable sort); a node
\* joins the layer of its rank when it is visited
initOrder(g) ==
  LET n == Len(g.nodes)
      orderedVs == Tup([k \in 1..n |->
                      CHOOSE i \in 1..n :
                        Cardinality({j \in 1..n :
                           \/ g.nodes[j].rank < g.nodes[i].rank
                           \/ g.nodes[j].rank = g.nodes[i].rank /\ j < i}) = k - 1])
      visits == initOrderVisitAll(g, orderedVs, <<>>)
      at(i) == CHOOSE k \in 1..n : visits[k] = i
  IN [g EXCEPT !.nodes = Tup([i \in 1..n |->
        [g.nodes[i] EXCEPT !.order =
           Cardinality({j \in 1..n : g.nodes[j].rank = g.nodes[i].rank /\ at(j) < at(i)})]])]

\* barycenter (order/barycenter.js) of v over its edges to the fixed layer:
\* <<sum of weight * order, sum of weight>>; down = TRUE takes the in edges
\* (the fixed layer is the rank above), FALSE the out edges
RECURSIVE barySum(_, _, _, _, _)
barySum(g, v, down, j, acc) ==
  IF j > Len(g.edges) THEN acc
  ELSE LET e == g.edges[j]
       IN IF down /\ e.w = v
          THEN barySum(g, v, down, j + 1,
                       <<acc[1] + e.weight * g.nodes[e.v].order, acc[2] + e.weight>>)
          ELSE IF ~down /\ e.v = v
          THEN barySum(g, v, down, j + 1,
                       <<acc[1] + e.weight * g.nodes[e.w].order, acc[2] + e.weight>>)
          ELSE barySum(g, v, down, j + 1, acc)

barycenter(g, v, down) == barySum(g, v, down, 1, <<0, 0>>)

\* compareWithBias (order/sort.js) on entries [v, i, b]: by barycenter, ties
\* by the index i, descending when bias is set
entryBefore(a, b, bias) ==
  \/ a.b[1] * b.b[2] < b.b[1] * a.b[2]
  \/ /\ a.b[1] * b.b[2] = b.b[1] * a.b[2]
     /\ IF bias THEN a.i > b.i ELSE a.i < b.i

RECURSIVE consumeUnsortable(_, _, _)
\* consumeUnsortable: entries without a barycenter keep their index
consumeUnsortable(vs, unsortable, index) ==
  IF unsortable # <<>> /\ Head(unsortable).i <= index
  THEN consumeUnsortable(Append(vs, Head(unsortable).v), Tail(unsortable), index + 1)
  ELSE [vs |-> vs, unsortable |-> unsortable, index |-> index]

RECURSIVE sortMerge(_, _)
sortMerge(sortable, c) ==
  IF sortable = <<>> THEN c.vs
  ELSE sortMerge(Tail(sortable),
                 consumeUnsortable(Append(c.vs, Head(sortable).v), c.unsortable, c.index + 1))

\* sortSubgraph for the layer of rank r: movable is the layer in node order
\* (the children of the layer graph's root), the result the new order
sortSubgraph(g, r, down, biasRight) ==
  LET movable == SortedSeq({i \in 1..Len(g.nodes) : g.nodes[i].rank = r})
      entries == Tup([k \in 1..Len(movable) |->
                    [v |-> movable[k], i |-> k - 1, b |-> barycenter(g, movable[k], down)]])
      S == {k \in 1..Len(entries) : entries[k].b[2] > 0}
      U == {k \in 1..Len(entries) : entries[k].b[2] = 0}
      sortable == Tup([k \in 1..Cardinality(S) |->
                     entries[CHOOSE a \in S :
                       Cardinality({b \in S : entryBefore(entries[b], entries[a], biasRight)})
                         = k - 1]])
      unsortable == Tup([k \in 1..Cardinality(U) |-> entries[SortedSeq(U)[k]]])
  IN sortMerge(sortable, consumeUnsortable(<<>>, unsortable, 0))

\* one layer of sweepLayerGraphs: the nodes of rank r take their new order
sweepLayer(g, r, down, biasRight) ==
  LET vs == sortSubgraph(g, r, down, biasRight)
  IN [g EXCEPT !.nodes = Tup([i \in 1..Len(g.nodes) |->
        IF g.nodes[i].rank = r
        THEN [g.nodes[i] EXCEPT !.order = IndexOf(vs, i) - 1]
        ELSE g.nodes[i]])]

RECURSIVE sweepDown(_, _, _)
\* the down sweep goes through the ranks 1..maxRank
sweepDown(g, r, biasRight) ==
  IF r > maxRank(g) THEN g
  ELSE sweepDown(sweepLayer(g, r, TRUE, biasRight), r + 1, biasRight)

RECURSIVE sweepUp(_, _, _)
\* the up sweep goes through the ranks maxRank-1..0
sweepUp(g, r, biasRight) ==
  IF r < 0 THEN g
  ELSE sweepUp(sweepLayer(g, r, FALSE, biasRight), r - 1, biasRight)

\* crossCount (order/cross-count.js): the weighted number of crossings
crossCount(g) ==
  LET E == 1..Len(g.edges)
      o(v) == g.nodes[v].order
      crossing == {p \in E \X E :
                     /\ g.nodes[g.edges[p[1]].v].rank = g.nodes[g.edges[p[2]].v].rank
                     /\ o(g.edges[p[1]].v) < o(g.edges[p[2]].v)
                     /\ o(g.edges[p[1]].w) > o(g.edges[p[2]].w)}
      RECURSIVE total(_)
      total(S) == IF S = {} THEN 0
                  ELSE LET p == CHOOSE p \in S : TRUE
                       IN g.edges[p[1]].weight * g.edges[p[2]].weight + total(S \ {p})
  IN total(crossing)

RECURSIVE orderLoop(_, _, _, _, _)
\* the loop of order(): sweeps alternate up and down, biasRight every other
\* pair; the best order seen is kept and the loop ends after 4 sweeps without
\* improvement.  bestCC = -1 stands for no order seen yet.
orderLoop(g, i, lastBest, best, bestCC) ==
  IF lastBest >= 4 THEN best
  ELSE LET swept == IF i % 2 = 1 THEN sweepDown(g, 1, i % 4 >= 2)
                    ELSE sweepUp(g, maxRank(g) - 1, i % 4 >= 2)
           cc == crossCount(swept)
       IN IF bestCC = -1 \/ cc < bestCC
          THEN orderLoop(swept, i + 1, 1, swept, cc)
          ELSE orderLoop(swept, i + 1, lastBest + 1, best, bestCC)

order(g) ==
  IF Len(g.nodes) = 0 THEN g
  ELSE LET g0 == initOrder(g) IN orderLoop(g0, 0, 0, g0, -1)

(***************************************************************************)
(* dagre.layout, phase 5: self loops come back as a dummy node to the      *)
(* right of their node, and the coordinate system is turned for LR.        *)
(***************************************************************************)
\* coordinateSystem without the case for lr and rl
swapsNoAxes(rankdir) == FALSE

\* the direction values dagre knows; any other string is laid out top to
\* bottom, a value that is not a string has no toLowerCase
swapsAxes(rankdir) == rankdir \in {"LR", "RL", "lr", "rl"}

\* makeSpaceForEdgeLabels: the label offset widens the (empty) edge label for
\* "TB" and "BT" and heightens it for every other value
selfEdgeLabel(rankdir) ==
  IF rankdir \in {"TB", "BT"}
  THEN [width |-> labeloffset, height |-> 0]
  ELSE [width |-> 0, height |-> labeloffset]

\* insertSelfEdges: within a layer every node moves right by the number of
\* self loop dummies before it; the dummy of v follows v
insertSelfEdges(g, rankdir) ==
  LET n == Len(g.nodes)
      before(i) == Cardinality({j \in 1..n :
                     /\ g.nodes[j].selfEdge
                     /\ g.nodes[j].rank = g.nodes[i].rank
                     /\ g.nodes[j].order < g.nodes[i].order})
      shifted == Tup([i \in 1..n |-> [g.nodes[i] EXCEPT !.order = @ + before(i)]])
      loops == SortedSeq({i \in 1..n : g.nodes[i].selfEdge})
      lab == selfEdgeLabel(rankdir)
  IN [g EXCEPT !.nodes = shifted \o
        Tup([k \in 1..Len(loops) |->
           layoutNode("_se", "selfedge", lab.width, lab.height,
                      shifted[loops[k]].rank, shifted[loops[k]].order + 1)])]

\* coordinateSystem.adjust and the second half of coordinateSystem.undo:
\* width and height change places for LR and RL
swapWidthHeight(g) ==
  [g EXCEPT !.nodes = Tup([i \in 1..Len(g.nodes) |->
     [g.nodes[i] EXCEPT !.width = g.nodes[i].height, !.height = g.nodes[i].width]])]

adjustCoordinateSystem(g, rankdir) ==
  IF swapsAxes(rankdir) THEN swapWidthHeight(g) ELSE g

(***************************************************************************)
(* dagre.layout, phase 6: coordinates (dagre/lib/position).  x and y are   *)
(* centres, in half pixels.                                                *)
(***************************************************************************)
RECURSIVE positionYFrom(_, _, _)
\* positionY: a rank is as high as its highest node, its nodes are centred
\* in it, and ranks are ranksep / 2 apart
positionYFrom(g, r, prevY) ==
  IF r > maxRank(g) THEN g
  ELSE LET layer == {i \in 1..Len(g.nodes) : g.nodes[i].rank = r}
           maxHeight == IF layer = {} THEN 0
                        ELSE SetMax({g.nodes[i].height : i \in layer})
       IN positionYFrom(
            [g EXCEPT !.nodes = Tup([i \in 1..Len(g.nodes) |->
               IF i \in layer THEN [g.nodes[i] EXCEPT !.y = prevY + maxHeight]
               ELSE g.nodes[i]])],
            r + 1, prevY + HalfPx(maxHeight) + ranksep)

positionY(g) == positionYFrom(g, 0, 0)

isDummy(g, v) == g.nodes[v].dummy # ""

\* findOtherInnerSegmentNode (position/bk.js): the dummy above a dummy, 0
\* when there is none
findOtherInnerSegmentNode(g, v) ==
  LET ps == IF isDummy(g, v)
            THEN SelectSeq(predecessors(g, v), LAMBDA u : isDummy(g, u))
            ELSE <<>>
  IN IF ps = <<>> THEN 0 ELSE Head(ps)

\* findType1Conflicts: the pairs {u, v} of an edge u -> v that crosses an
\* inner segment (an edge between two dummies).  For the node at index s of
\* a layer the inner segments next to it are the one at the first index
\* b >= s that has one (or the end of the layer) and the one before.
findType1Conflicts(g) ==
  LET n == Len(g.nodes)
      marks(r) == {0} \cup {b \in 1..Len(layerOf(g, r)) :
                     \/ findOtherInnerSegmentNode(g, layerOf(g, r)[b]) # 0
                     \/ b = Len(layerOf(g, r))}
      k(r, b) == IF b = 0 THEN 0
                 ELSE LET w == findOtherInnerSegmentNode(g, layerOf(g, r)[b])
                      IN IF w # 0 THEN g.nodes[w].order ELSE Len(layerOf(g, r - 1))
      conflict(u, v) ==
        LET r == g.nodes[v].rank
            s == g.nodes[v].order + 1
            b1 == SetMin({b \in marks(r) : b >= s})
            b0 == SetMax({b \in marks(r) : b < s})
            uPos == g.nodes[u].order
        IN /\ uPos < k(r, b0) \/ k(r, b1) < uPos
           /\ ~(isDummy(g, u) /\ isDummy(g, v))
  IN {{g.edges[j].v, g.edges[j].w} : j \in
        {j \in 1..Len(g.edges) : conflict(g.edges[j].v, g.edges[j].w)}}

\* the layering one alignment works on: bottom up for "d", right to left
\* for "r"
adjustedLayering(g, vert, horiz) ==
  LET m == maxRank(g)
      byVert == Tup([k \in 1..(m + 1) |->
                   layerOf(g, IF vert = "u" THEN k - 1 ELSE m + 1 - k)])
  IN Tup([k \in 1..(m + 1) |-> IF horiz = "r" THEN Reverse(byVert[k]) ELSE byVert[k]])

\* pos[v]: the index of v in its layer of the layering
positionsIn(layering, n) ==
  Tup([v \in 1..n |->
     LET k == CHOOSE k \in 1..Len(layering) : v \in Range(layering[k])
     IN IndexOf(layering[k], v) - 1])

RECURSIVE alignMedians(_, _, _, _, _, _, _)
\* the inner loop of verticalAlignment: v is aligned with its median
\* neighbour (the left one first when there are two) unless it is aligned
\* already, the alignment would cross the previous one, or the edge is in
\* conflict
alignMedians(st, v, ws, i, il, pos, conflicts) ==
  IF i > il THEN st
  ELSE LET w == ws[i + 1]
       IN IF st.align[v] = v /\ st.prevIdx < pos[w] /\ {v, w} \notin conflicts
          THEN alignMedians(
                 [root |-> [st.root EXCEPT ![v] = st.root[w]],
                  align |-> [st.align EXCEPT ![w] = v, ![v] = st.root[w]],
                  prevIdx |-> pos[w]],
                 v, ws, i + 1, il, pos, conflicts)
          ELSE alignMedians(st, v, ws, i + 1, il, pos, conflicts)

RECURSIVE alignLayer(_, _, _, _, _, _, _)
alignLayer(g, st, layer, k, vert, pos, conflicts) ==
  IF k > Len(layer) THEN st
  ELSE LET v == layer[k]
           nb == IF vert = "u" THEN predecessors(g, v) ELSE successors(g, v)
           N == Range(nb)
           ws == Tup([a \in 1..Cardinality(N) |->
                    CHOOSE w \in N : Cardinality({u \in N : pos[u] < pos[w]}) = a - 1])
           st2 == IF ws = <<>> THEN st
                  ELSE alignMedians(st, v, ws, (Len(ws) - 1) \div 2, Len(ws) \div 2,
                                    pos, conflicts)
       IN alignLayer(g, st2, layer, k + 1, vert, pos, conflicts)

RECURSIVE alignLayers(_, _, _, _, _, _, _)
alignLayers(g, st, layering, k, vert, pos, conflicts) ==
  IF k > Len(layering) THEN st
  ELSE alignLayers(g,
         alignLayer(g, [st EXCEPT !.prevIdx = -1], layering[k], 1, vert, pos, conflicts),
         layering, k + 1, vert, pos, conflicts)

\* verticalAlignment: the blocks, as root[v] and align[v]
verticalAlignment(g, layering, vert, conflicts) ==
  LET n == Len(g.nodes)
  IN alignLayers(g, [root |-> Tup([v \in 1..n |-> v]), align |-> Tup([v \in 1..n |-> v]),
                     prevIdx |-> -1],
                 layering, 1, vert, positionsIn(layering, n), conflicts)

\* sep without the separations: neighbours may touch
sepOfWidths(g, v, u) == g.nodes[v].width + g.nodes[u].width

\* sep: the least distance between the centres of two neighbours of a layer;
\* dummies keep edgesep, nodes nodesep
sep(g, v, u) ==
  g.nodes[v].width + (IF isDummy(g, v) THEN edgesep ELSE nodesep)
  + (IF isDummy(g, u) THEN edgesep ELSE nodesep) + g.nodes[u].width

\* buildBlockGraph: the weight of the edge between the blocks of two roots,
\* -1 when the blocks are never neighbours
blockEdge(g, layering, root, a, b) ==
  LET pairs == {<<k, i>> \in (1..Len(layering)) \X (1..Len(g.nodes)) :
                  /\ i < Len(layering[k])
                  /\ root[layering[k][i]] = a
                  /\ root[layering[k][i + 1]] = b}
  IN IF pairs = {} THEN -1
     ELSE SetMax({sep(g, layering[p[1]][p[2] + 1], layering[p[1]][p[2]]) : p \in pairs})

\* horizontalCompaction: the first pass gives every block the least
\* coordinate its left neighbours allow, the second moves it right as far as
\* its right neighbours allow; every node takes the coordinate of its root
horizontalCompaction(g, layering, root) ==
  LET n == Len(g.nodes)
      w == Tup([a \in 1..n |-> Tup([b \in 1..n |-> blockEdge(g, layering, root, a, b)])])
      RECURSIVE pass1(_, _)
      pass1(xs, t) ==
        IF t = 0 THEN xs
        ELSE pass1(Tup([b \in 1..n |->
                      SetMax({0} \cup {xs[a] + w[a][b] : a \in {a \in 1..n : w[a][b] >= 0}})]),
                   t - 1)
      first == pass1(Tup([b \in 1..n |-> 0]), n)
      RECURSIVE pass2(_, _)
      pass2(xs, t) ==
        IF t = 0 THEN xs
        ELSE pass2(Tup([a \in 1..n |->
                      LET out == {b \in 1..n : w[a][b] >= 0}
                      IN IF out = {} THEN first[a]
                         ELSE Max2(first[a], SetMin({xs[b] - w[a][b] : b \in out}))]),
                   t - 1)
      second == pass2(first, n)
  IN Tup([v \in 1..n |-> second[root[v]]])

\* one of the four alignments of positionX
alignment(g, vert, horiz, conflicts) ==
  LET layering == adjustedLayering(g, vert, horiz)
      al == verticalAlignment(g, layering, vert, conflicts)
      xs == horizontalCompaction(g, layering, al.root)
  IN IF horiz = "r" THEN Tup([v \in DOMAIN xs |-> -xs[v]]) ELSE xs

\* the four alignments in the order ul, ur, dl, dr
alignments(g, conflicts) ==
  Tup([a \in 1..4 |-> alignment(g, IF a <= 2 THEN "u" ELSE "d",
                                IF a \in {1, 3} THEN "l" ELSE "r", conflicts)])

\* the width an alignment takes, the halves of the outermost nodes included
alignmentWidth(g, xs) ==
  SetMax({xs[v] + g.nodes[v].width : v \in 1..Len(g.nodes)})
  - SetMin({xs[v] - g.nodes[v].width : v \in 1..Len(g.nodes)})

\* findSmallestWidthAlignment: the first of the narrowest alignments
findSmallestWidthAlignment(g, xss) ==
  SetMin({a \in 1..4 :
            \A b \in 1..4 : alignmentWidth(g, xss[a]) <= alignmentWidth(g, xss[b])})

\* alignCoordinates: the left alignments are shifted to the least coordinate
\* of alignTo, the right ones to its greatest
alignCoordinates(xss, alignTo) ==
  Tup([a \in 1..4 |->
     LET delta == IF a = alignTo THEN 0
                  ELSE IF a \in {1, 3}
                  THEN SetMin(Range(xss[alignTo])) - SetMin(Range(xss[a]))
                  ELSE SetMax(Range(xss[alignTo])) - SetMax(Range(xss[a]))
     IN Tup([v \in DOMAIN xss[a] |-> xss[a][v] + delta])])

\* the k-th smallest of the four values of f
nth(f, k) ==
  CHOOSE x \in Range(f) :
    /\ Cardinality({a \in 1..4 : f[a] < x}) < k
    /\ Cardinality({a \in 1..4 : f[a] <= x}) >= k

\* balance: every node gets the mean of its two middle coordinates
balance(xss, n) ==
  Tup([v \in 1..n |->
     (nth(Tup([a \in 1..4 |-> xss[a][v]]), 2) + nth(Tup([a \in 1..4 |-> xss[a][v]]), 3)) \div 2])

alignAndBalance(g, xss) ==
  balance(alignCoordinates(xss, findSmallestWidthAlignment(g, xss)), Len(g.nodes))

\* positionX (Brandes and Koepf)
positionX(g) == alignAndBalance(g, alignments(g, findType1Conflicts(g)))

assignX(g, xs) ==
  [g EXCEPT !.nodes = Tup([i \in 1..Len(g.nodes) |-> [g.nodes[i] EXCEPT !.x = xs[i]]])]

positionXOf(g) == assignX(g, positionX(g))

\* position: y by rank, x by positionX
position(g) == IF Len(g.nodes) = 0 THEN g ELSE positionXOf(positionY(g))

(***************************************************************************)
(* dagre.layout, phase 7: back to the input graph.                         *)
(***************************************************************************)
\* normalize.undo: the dummies of long edges leave the graph.  The nodes of
\* the input graph and the self loop dummies (which by now stand for the
\* labels of the self loops) stay.
removeDummies(g) ==
  [g EXCEPT !.nodes = SelectSeq(g.nodes, LAMBDA nd : nd.dummy # "edge")]

\* coordinateSystem.undo: x and y, width and height change places for LR
undoCoordinateSystem(g, rankdir) ==
  IF swapsAxes(rankdir)
  THEN swapWidthHeight(
         [g EXCEPT !.nodes = Tup([i \in 1..Len(g.nodes) |->
            [g.nodes[i] EXCEPT !.x = g.nodes[i].y, !.y = g.nodes[i].x]])])
  ELSE g

\* the graph moved to the origin, without the margins
translateToOrigin(g) ==
  IF Len(g.nodes) = 0 THEN g
  ELSE LET N == 1..Len(g.nodes)
           minX == SetMin({g.nodes[i].x - g.nodes[i].width : i \in N})
           minY == SetMin({g.nodes[i].y - g.nodes[i].height : i \in N})
       IN [g EXCEPT !.nodes = Tup([i \in N |->
             [g.nodes[i] EXCEPT !.x = @ - minX, !.y = @ - minY]])]

\* translateGraph: the drawing is moved so that its leftmost and topmost
\* points (of nodes and of edge labels) are a margin from the origin
translateGraph(g) ==
  IF Len(g.nodes) = 0 THEN g
  ELSE LET N == 1..Len(g.nodes)
           minX == SetMin({g.nodes[i].x - g.nodes[i].width : i \in N}) - HalfPx(marginx)
           minY == SetMin({g.nodes[i].y - g.nodes[i].height : i \in N}) - HalfPx(marginy)
       IN [g EXCEPT !.nodes = Tup([i \in N |->
             [g.nodes[i] EXCEPT !.x = @ - minX, !.y = @ - minY]])]

\* the first steps of runLayout, up to the ranks
rankedGraph(ig) ==
  rank(acyclicRun(removeSelfEdges(makeSpaceForEdgeLabels(buildLayoutGraph(ig)))))

\* runLayout (dagre/lib/layout.js) for a direction that is a string
runLayout(ig, rankdir) ==
  LET ordered == insertSelfEdges(order(normalizeRun(rankedGraph(ig))), rankdir)
      positioned == position(adjustCoordinateSystem(ordered, rankdir))
  IN translateGraph(undoCoordinateSystem(removeDummies(positioned), rankdir))

\* the result of dagre.layout(dagreGraph) when it throws
\* updateInputGraph without `if (inputLabel)`: every label is written to
everyLabel(ig) == 1..Len(ig.nodes)

\* updateInputGraph writes to the labels that pass `if (inputLabel)`: a
\* node that setEdge created has no label and is passed over
updatedLabels(ig) == {i \in 1..Len(ig.nodes) : ig.label[i] # NoLabel}

RECURSIVE pathsOf(_, _)
\* the pairs of keys joined by a path of at most n + 1 edges of E
pathsOf(E, n) ==
  IF n = 0 THEN E
  ELSE pathsOf(E \cup {<<pq[1][1], pq[2][2]>> : pq \in {x \in E \X E : x[1][2] = x[2][1]}},
               n - 1)

\* the graph has a directed cycle (a self loop is one)
cyclic(ig) ==
  \E p \in pathsOf(Range(ig.edges), Len(ig.nodes)) : p[1] = p[2]

\* dagre.layout written without acyclic.run and removeSelfEdges: a graph
\* with a cycle is refused
layoutThrowsOnCycles(ig, rankdir) ==
  \/ rankdir = NotAString
  \/ cyclic(ig)

\* dagre.layout throws a TypeError when coordinateSystem.adjust calls
\* rankdir.toLowerCase() on a rankdir that is no string, and it would throw
\* one when updateInputGraph wrote x to a label that is undefined
layoutThrows(ig, rankdir) ==
  \/ rankdir = NotAString
  \/ \E i \in updatedLabels(ig) : ig.label[i] = NoLabel

\* updateInputGraph: the centre of every node of the layout graph goes into
\* its label in the input graph (in half pixels)
updateInputGraph(ig, g) ==
  [ig EXCEPT !.label = Tup([i \in 1..Len(ig.nodes) |->
     IF i \notin updatedLabels(ig) THEN ig.label[i]
     ELSE [width |-> ig.label[i].width, height |-> ig.label[i].height,
           x |-> g.nodes[i].x, y |-> g.nodes[i].y]])]

dagreLayout(ig, rankdir) == updateInputGraph(ig, runLayout(ig, rankdir))

\* dagreGraph.node(id): the label stored under the key
graphNode(g, id) == g.label[IndexOf(g.nodes, NodeKey(id))]

(***************************************************************************)
(* getLayoutedElements (route.ts 7-53).                                    *)
(***************************************************************************)
\* lines 8-36: a new graph, a dagre node for every node, an edge for every
\* edge
populate(g, nodes, edges) == setEdges(setNodes(g, nodes, 1), edges, 1)

buildGraph(nodes, edges) == populate(graphlibGraph, nodes, edges)

\* lines 40-50 written so that a node moves by its dagre position from where
\* it was, instead of to it
mapNodesFromOld(g, nodes) ==
  Tup([i \in 1..Len(nodes) |->
     LET nodeWithPosition == graphNode(g, nodes[i].id)
         dim == getNodeDimensions(nodes[i])
     IN [nodes[i] EXCEPT !.position =
           [x |-> nodes[i].position.x + nodeWithPosition.x - dim.width,
            y |-> nodes[i].position.y + nodeWithPosition.y - dim.height]]])

\* lines 40-50 written so that only the nodes some edge touches are returned
mapNodesLinked(g, nodes) ==
  SelectSeq(Tup([i \in 1..Len(nodes) |->
              LET nodeWithPosition == graphNode(g, nodes[i].id)
                  dim == getNodeDimensions(nodes[i])
              IN [nodes[i] EXCEPT !.position =
                    [x |-> nodeWithPosition.x - dim.width,
                     y |-> nodeWithPosition.y - dim.height]]]),
            LAMBDA nd : \E j \in 1..Len(g.edges) :
                          NodeKey(nd.id) \in {g.edges[j][1], g.edges[j][2]})

\* lines 40-50 written so that a returned node carries its size and no more
\* than the first file
mapNodesResized(g, nodes) ==
  Tup([i \in 1..Len(nodes) |->
     LET nodeWithPosition == graphNode(g, nodes[i].id)
         dim == getNodeDimensions(nodes[i])
     IN [nodes[i] EXCEPT !.position =
           [x |-> nodeWithPosition.x - dim.width,
            y |-> nodeWithPosition.y - dim.height],
         !.files = Min2(@, 1)]])

\* lines 40-50: every node with the top-left corner of its dagre node
\* (position is in half pixels)
mapNodes(g, nodes) ==
  Tup([i \in 1..Len(nodes) |->
     LET nodeWithPosition == graphNode(g, nodes[i].id)
         dim == getNodeDimensions(nodes[i])
     IN [nodes[i] EXCEPT !.position =
           [x |-> nodeWithPosition.x - dim.width,
            y |-> nodeWithPosition.y - dim.height]]])

\* the whole function, for a direction that does not make dagre throw
getLayoutedElements(nodes, edges, direction) ==
  [nodes |-> mapNodes(dagreLayout(buildGraph(nodes, edges), direction), nodes),
   edges |-> edges]

(***************************************************************************)
(* The requests the model draws from.                                      *)
(*                                                                         *)
(* A node is [id, files, width, position]: files is the length of          *)
(* data.files, width a width the client submitted with the node (route.ts  *)
(* never reads it), position is in half pixels.  An edge is [source,       *)
(* target].                                                                *)
(***************************************************************************)
Ids == <<"a", "b", "c">>
\* an id that no node of a request has
PhantomId == "x"
\* the ids POST gives to nodes the AI left without one (route.ts 82)
IndexIds == <<"node-0", "node-1", "node-2", "node-3">>
ManyFiles == filesThreshold + 1
Origin == [x |-> 0, y |-> 0]

\* a node as the layout reads it: its id (Undefined when it has none), the
\* length of its file list and its position
Node(id, files) == [id |-> id, files |-> files, position |-> Origin]

\* a node that carries a width of its own
SizedNode(id, files, width) ==
  [id |-> id, files |-> files, position |-> Origin, width |-> width]

\* the body of a PUT request
PutBody(nodes, edges, layout) ==
  [method |-> "PUT", nodes |-> nodes, edges |-> edges, layout |-> layout]

EndSeq(n) == SubSeq(Ids, 1, n) \o <<PhantomId>>
EdgeRecs(n) == {[source |-> s, target |-> t] : s \in Range(EndSeq(n)), t \in Range(EndSeq(n))}
EdgeCode(n, e) ==
  (IndexOf(EndSeq(n), e.source) - 1) * (n + 1) + IndexOf(EndSeq(n), e.target)

\* the edge lists for the first n ids and the phantom id, up to the order of
\* the edges: self loops, cycles, parallel edges and dangling edges included
EdgeLists(n) ==
  {es \in UNION {[1..m -> EdgeRecs(n)] : m \in 0..MaxEdges} :
     \A i \in 1..(Len(es) - 1) : EdgeCode(n, es[i]) <= EdgeCode(n, es[i + 1])}

\* well-formed node lists: the first n ids, any mix of short and long file
\* lists
NodeLists(n) ==
  {Tup([k \in 1..n |-> Node(Ids[k], f[k])]) : f \in [1..n -> {0, ManyFiles}]}

\* the bodies of well-formed PUT requests
PutBodies ==
  UNION {{PutBody(ns, es, d) :
            ns \in NodeLists(n), es \in EdgeLists(n), d \in {"TB", "LR"}} :
         n \in 0..Len(Ids)}

\* node lists with malformed nodes: a node may come without an id or with a
\* width of 0
RawNodeLists(n) ==
  {Tup([k \in 1..n |->
          IF m[k][2] THEN Node(IF m[k][1] THEN Ids[k] ELSE Undefined, 0)
          ELSE SizedNode(IF m[k][1] THEN Ids[k] ELSE Undefined, 0, 0)]) :
     m \in [1..n -> BOOLEAN \X BOOLEAN]}

\* every value a client can send as layout: absent, the two directions, a
\* string that is no direction, a value that is no string
Layouts == {Undefined, "TB", "LR", "sideways", NotAString}

RawNodes == UNION {RawNodeLists(n) : n \in 0..MaxRawNodes}
RawEdges == {<<>>, <<[source |-> Ids[1], target |-> PhantomId]>>}

\* the bodies of PUT requests with malformed or missing parts; a body
\* without nodes or without edges is a record without that field
RawPutBodies ==
  {PutBody(ns, es, d) : ns \in RawNodes, es \in RawEdges, d \in Layouts}
  \cup {[method |-> "PUT", edges |-> es, layout |-> d] : es \in RawEdges, d \in Layouts}
  \cup {[method |-> "PUT", nodes |-> ns, layout |-> d] : ns \in RawNodes, d \in Layouts}
  \cup {[method |-> "PUT", layout |-> d] : d \in Layouts}

\* the bodies of POST requests
PostBodies ==
  {[method |-> "POST", url |-> u, layout |-> d] :
     u \in {Undefined, "example.com/owner/repo", "github.com/owner/repo"}, d \in Layouts}

\* what analyzeRepoStructure may return: nodes with or without an id, with
\* a short or a long file list, and edges between them
Analyses ==
  UNION {{[nodes |-> ns, edges |-> es] :
            ns \in {Tup([k \in 1..n |-> [id |-> IF m[k][1] THEN Ids[k] ELSE Undefined,
                                          files |-> IF m[k][2] THEN 0 ELSE ManyFiles]]) :
                      m \in [1..n -> BOOLEAN \X BOOLEAN]},
            es \in {<<>>, <<[source |-> Ids[1], target |-> Ids[2]]>>}} :
         n \in 0..MaxRawNodes}

\* the arguments of the calls SpecCalls makes one after the other
CallBodies ==
  UNION {{PutBody(ns, es, d) :
            ns \in {Tup([k \in 1..n |-> Node(Ids[k], 0)])},
            es \in {<<>>, <<[source |-> Ids[2], target |-> Ids[1]]>>},
            d \in {"TB", "LR"}} :
         n \in 0..2}

(***************************************************************************)
(* The state of the server while it handles requests to /api/repo.         *)
(***************************************************************************)
VARIABLES
  pc,          \* where the handler stands: "idle", "received", "analysing",
               \* "called", "built", "laidout", "threw", "done"
  req,         \* the body of the request being handled
  call,        \* the arguments of the running call of getLayoutedElements
  dagreGraph,  \* the graph of that call (route.ts 8)
  resp,        \* the response
  fed,         \* TRUE when the request's nodes and edges are those of the
               \* previous response (the client re-layouts what it was given)
  log          \* the calls of getLayoutedElements that have returned or
               \* thrown, each with its arguments and what came of it

(***************************************************************************)
(* The state of the server around the LLM providers: the environment the   *)
(* registry and the catalog read, a call of a function of registry.ts, and *)
(* the handler of /api/chat.                                               *)
(***************************************************************************)
VARIABLES
  env,           \* process.env as far as registry.ts and the catalog read it
  value,         \* the argument of the call of a registry function
  returned,      \* the function that was called and what it returned
  chatPc,        \* where the chat handler stands: "idle", "received",
                 \* "checking", "checked", "validated", "done"
  chatReq,       \* the body of the chat request being handled
  availability,  \* what getProviderAvailability answered for the request
  chatResp,      \* the response of the chat handler
  streaming,     \* the provider whose chatStream the handler has started
  forwarded      \* what the handler gave chatStreamWithContext as history

llmVars == <<env, value, returned, chatPc, chatReq, availability, chatResp, streaming,
             forwarded>>

(***************************************************************************)
(* The state of the page (page.tsx, EnhancedChatbot.tsx) and of the body   *)
(* of a chat response.                                                     *)
(***************************************************************************)
VARIABLES
  page,          \* the state of FlowCanvas: nodes, edges, selectedNode, history,
                 \* projects, activeProjectId, layoutDirection
  count,         \* how many ids generateId and Date.now() have given, how
                 \* many edits were recorded, and how many a run may have
  recordedIn,    \* for each entry of page.history, the project that was active
                 \* when saveToHistory recorded it
  layoutFetch,   \* the PUT /api/repo of handleLayoutChange that is in flight
  chatSend,      \* the handleSend of the chat panel that is in flight
  event,         \* the handler that ran last
  controller     \* the ReadableStream of a chat response and the provider's
                 \* generator that feeds it

pageVars == <<page, count, recordedIn, layoutFetch, chatSend, event>>

vars == <<pc, req, call, dagreGraph, resp, fed, log,
          env, value, returned, chatPc, chatReq, availability, chatResp, streaming,
          forwarded,
          page, count, recordedIn, layoutFetch, chatSend, event, controller>>

Null == "null"
NoEnv == [none |-> TRUE]
NoValue == [type |-> "none"]
NotCalled == [fn |-> "none"]
NoChatRequest == [none |-> TRUE]
NotChecked == [none |-> TRUE]
NotForwarded == [none |-> TRUE]

NoRequest == [method |-> "none"]
NoCall == [direction |-> "none"]
NoGraph == [nodes |-> <<>>, label |-> <<>>, edges |-> <<>>, none |-> TRUE]
NoResponse == [status |-> 0]

NoPage == [none |-> TRUE]
NoCount == [none |-> TRUE]
NoFetch == [none |-> TRUE]
NoSend == [none |-> TRUE]
NoEvent == [op |-> "none"]
NoStream == [none |-> TRUE]

\* no page is open
pageIdle ==
  /\ page = NoPage
  /\ count = NoCount
  /\ recordedIn = <<>>
  /\ layoutFetch = NoFetch
  /\ chatSend = NoSend
  /\ event = NoEvent

\* nothing goes on around the LLM providers
llmIdle ==
  /\ env = NoEnv
  /\ value = NoValue
  /\ returned = NotCalled
  /\ chatPc = "idle"
  /\ chatReq = NoChatRequest
  /\ availability = NotChecked
  /\ chatResp = NoResponse
  /\ streaming = Null
  /\ forwarded = NotForwarded
  /\ controller = NoStream

Init ==
  /\ pc = "idle"
  /\ req = NoRequest
  /\ call = NoCall
  /\ dagreGraph = NoGraph
  /\ resp = NoResponse
  /\ fed = FALSE
  /\ log = <<>>
  /\ llmIdle
  /\ pageIdle

\* NextResponse.json({ nodes, edges }) and
\* NextResponse.json({ error }, { status })
Ok(nodes, edges) == [status |-> 200, nodes |-> nodes, edges |-> edges]
Failed(status, error) == [status |-> status, error |-> error]

\* the ids of the nodes of two chains
ChainIds == <<"a", "b", "c", "d", "e", "f", "g", "h">>

\* the edges of a chain of the ids first..last
chainEdges(first, last) ==
  Tup([k \in 1..(last - first) |->
     [source |-> ChainIds[first + k - 1], target |-> ChainIds[first + k]]])

\* the bodies of PUT requests whose graph is two chains without an edge
\* between them, the first node with a short or a long file list
ChainBodies ==
  {PutBody(Tup([k \in 1..(pq[1] + pq[2]) |->
                  Node(ChainIds[k], IF k = 1 THEN f ELSE 0)]),
           chainEdges(1, pq[1]) \o chainEdges(pq[1] + 1, pq[1] + pq[2]), d) :
     pq \in (1..MaxChain) \X (1..MaxChain), f \in {0, ManyFiles}, d \in {"TB", "LR"}}

\* every request the model sends
Bodies == PutBodies \cup ChainBodies \cup RawPutBodies \cup PostBodies

\* a request arrives; the graph of an earlier call is out of reach by now
Arrives ==
  /\ pc = "idle"
  /\ \E body \in Bodies :
       /\ pc' = "received"
       /\ req' = body
       /\ call' = NoCall
       /\ dagreGraph' = NoGraph
       /\ resp' = NoResponse
       /\ fed' = FALSE
       /\ log' = <<>>
  /\ UNCHANGED llmVars
  /\ UNCHANGED pageVars
  /\ UNCHANGED controller

\* handleLayoutChange (page.tsx 565-585) after the client has taken over the
\* nodes and edges of a response: the same graph is sent for layout again
PutRelayout ==
  /\ pc = "done"
  /\ resp.status = 200
  /\ ~fed
  /\ pc' = "received"
  /\ req' = PutBody(resp.nodes, resp.edges, call.direction)
  /\ call' = NoCall
  /\ dagreGraph' = NoGraph
  /\ resp' = NoResponse
  /\ fed' = TRUE
  /\ UNCHANGED log
  /\ UNCHANGED llmVars
  /\ UNCHANGED pageVars
  /\ UNCHANGED controller

\* the running request is forgotten
Finish ==
  /\ pc = "done"
  /\ pc' = "idle"
  /\ req' = NoRequest
  /\ call' = NoCall
  /\ dagreGraph' = NoGraph
  /\ resp' = NoResponse
  /\ fed' = FALSE
  /\ log' = <<>>
  /\ UNCHANGED llmVars
  /\ UNCHANGED pageVars
  /\ UNCHANGED controller

\* const { ..., layout = 'TB' } = await req.json()
layoutOf(body) == IF body.layout = Undefined THEN "TB" ELSE body.layout

\* PUT (route.ts 133-141): a request without nodes or without edges is
\* answered 400, any other goes to getLayoutedElements
Put ==
  /\ pc = "received"
  /\ req.method = "PUT"
  /\ IF "nodes" \notin DOMAIN req \/ "edges" \notin DOMAIN req
     THEN /\ pc' = "done"
          /\ resp' = Failed(400, "Nodes and edges are required")
          /\ UNCHANGED call
     ELSE /\ pc' = "called"
          /\ call' = [nodes |-> req.nodes, edges |-> req.edges, direction |-> layoutOf(req)]
          /\ UNCHANGED resp
  /\ UNCHANGED <<req, dagreGraph, fed, log>>
  /\ UNCHANGED llmVars
  /\ UNCHANGED pageVars
  /\ UNCHANGED controller

\* POST (route.ts 55-69): the url must be there and name a GitHub repository
Post ==
  /\ pc = "received"
  /\ req.method = "POST"
  /\ IF req.url = Undefined
     THEN /\ pc' = "done"
          /\ resp' = Failed(400, "URL is required")
     ELSE IF req.url # "github.com/owner/repo"
     THEN /\ pc' = "done"
          /\ resp' = Failed(400, "Invalid GitHub URL")
     ELSE /\ pc' = "analysing"
          /\ UNCHANGED resp
  /\ UNCHANGED <<req, call, dagreGraph, fed, log>>
  /\ UNCHANGED llmVars
  /\ UNCHANGED pageVars
  /\ UNCHANGED controller

\* route.ts 81-94: a node the AI left without an id is given node-<index>,
\* a node without files an empty file list; every node starts at the origin
flowNodes(analysis) ==
  Tup([k \in 1..Len(analysis.nodes) |->
     Node(IF analysis.nodes[k].id = Undefined THEN IndexIds[k] ELSE analysis.nodes[k].id,
          analysis.nodes[k].files)])

\* route.ts 96-115, as far as the layout reads the edges
flowEdges(analysis) ==
  Tup([k \in 1..Len(analysis.edges) |->
     [source |-> analysis.edges[k].source, target |-> analysis.edges[k].target]])

\* POST (route.ts 73-118): the repository is read and analysed, which may
\* fail, and the analysis goes to getLayoutedElements
PostAnalysed ==
  /\ pc = "analysing"
  /\ \/ /\ pc' = "done"
        /\ resp' = Failed(500, "Failed to fetch repository")
        /\ UNCHANGED call
     \/ \E analysis \in Analyses :
          /\ pc' = "called"
          /\ call' = [nodes |-> flowNodes(analysis), edges |-> flowEdges(analysis),
                      direction |-> layoutOf(req)]
          /\ UNCHANGED resp
  /\ UNCHANGED <<req, dagreGraph, fed, log>>
  /\ UNCHANGED llmVars
  /\ UNCHANGED pageVars
  /\ UNCHANGED controller

\* route.ts 8 written with the graph at module level: the graph of the
\* call before is used again
sharedGraph(old) == IF old = NoGraph THEN graphlibGraph ELSE old

\* new dagre.graphlib.Graph() (route.ts 8): whatever graph was there before,
\* the call starts with an empty one
newGraph(old) == graphlibGraph

\* getLayoutedElements, lines 8-36
BuildGraph ==
  /\ pc = "called"
  /\ pc' = "built"
  /\ dagreGraph' = populate(newGraph(dagreGraph), call.nodes, call.edges)
  /\ UNCHANGED <<req, call, resp, fed, log>>
  /\ UNCHANGED llmVars
  /\ UNCHANGED pageVars
  /\ UNCHANGED controller

\* getLayoutedElements, line 38
DagreLayout ==
  /\ pc = "built"
  /\ IF layoutThrows(dagreGraph, call.direction)
     THEN /\ pc' = "threw"
          /\ UNCHANGED dagreGraph
     ELSE /\ pc' = "laidout"
          /\ dagreGraph' = dagreLayout(dagreGraph, call.direction)
  /\ UNCHANGED <<req, call, resp, fed, log>>
  /\ UNCHANGED llmVars
  /\ UNCHANGED pageVars
  /\ UNCHANGED controller

\* the handlers written with a catch block that answers with the nodes as
\* they were sent when the layout threw
layoutResponseLenient(threw, g, nodes, edges) ==
  IF threw THEN Ok(nodes, edges) ELSE Ok(mapNodes(g, nodes), edges)

\* what the handler answers after the call: the layouted nodes and edges
\* (route.ts 120-124, 143-146), or 500 from the catch block (126-129,
\* 147-150) when dagre.layout threw
layoutResponse(threw, g, nodes, edges) ==
  IF threw
  THEN Failed(500, "rankdir.toLowerCase is not a function")
  ELSE Ok(mapNodes(g, nodes), edges)

\* getLayoutedElements, lines 40-52, and the response: 200 with the nodes
\* and edges, or 500 from the catch block when dagre.layout threw
Respond ==
  /\ pc \in {"laidout", "threw"}
  /\ pc' = "done"
  /\ resp' = layoutResponse(pc = "threw", dagreGraph, call.nodes, call.edges)
  /\ log' = Append(log, [input |-> call, output |-> resp'])
  /\ UNCHANGED <<req, call, dagreGraph, fed>>
  /\ UNCHANGED llmVars
  /\ UNCHANGED pageVars
  /\ UNCHANGED controller

Next ==
  \/ Arrives
  \/ PutRelayout
  \/ Put
  \/ Post
  \/ PostAnalysed
  \/ BuildGraph
  \/ DagreLayout
  \/ Respond
  \/ Finish

Spec == Init /\ [][Next]_vars

(***************************************************************************)
(* SpecCalls: one server process answers MaxCalls requests one after the   *)
(* other.  The graph of a call stays in dagreGraph until the next call     *)
(* makes its own.                                                          *)
(***************************************************************************)
CallArrives ==
  /\ pc \in {"idle", "done"}
  /\ Len(log) < MaxCalls
  /\ \E body \in CallBodies :
       /\ pc' = "received"
       /\ req' = body
       /\ call' = NoCall
       /\ resp' = NoResponse
       /\ UNCHANGED <<dagreGraph, fed, log>>
  /\ UNCHANGED llmVars
  /\ UNCHANGED pageVars
  /\ UNCHANGED controller

NextCalls ==
  \/ CallArrives
  \/ Put
  \/ BuildGraph
  \/ DagreLayout
  \/ Respond

SpecCalls == Init /\ [][NextCalls]_vars

(***************************************************************************)
(* Properties.                                                             *)
(***************************************************************************)
\* getLayoutedElements has returned and the handler has answered 200
Returned == pc = "done" /\ resp.status = 200

\* the running call has a direction dagre can lower-case
StringDirection == pc \in {"called", "built", "laidout", "threw", "done"}
                   /\ call # NoCall /\ call.direction # NotAString

\* C1: re-layout is idempotent: when the nodes a layout returned are sent
\* again with the same edges and the same direction, every node comes back
\* with the position it was sent with.
C1_RelayoutIdempotent ==
  (Returned /\ fed) =>
     /\ Len(resp.nodes) = Len(req.nodes)
     /\ \A i \in 1..Len(resp.nodes) : resp.nodes[i].position = req.nodes[i].position

C1_Witness ==
  /\ Returned /\ fed
  /\ Len(req.nodes) = 3 /\ Len(req.edges) = 2
  /\ req.nodes[2].position # req.nodes[3].position
  /\ req.layout = "LR"

\* C2: the layout is a function of (nodes, edges, direction): two calls of
\* one process with equal arguments return equal results, and what a call
\* returns is what a first call with these arguments returns, whatever calls
\* went before.
C2_LayoutIsPure ==
  /\ \A i, j \in 1..Len(log) :
       log[i].input = log[j].input => log[i].output = log[j].output
  /\ \A i \in 1..Len(log) :
       /\ log[i].output.status = 200
       /\ log[i].output.nodes =
            getLayoutedElements(log[i].input.nodes, log[i].input.edges,
                                log[i].input.direction).nodes

C2_Witness ==
  /\ Len(log) = 3
  /\ log[1].input = log[3].input
  /\ log[2].input # log[1].input
  /\ Len(log[1].input.nodes) = 2 /\ log[1].input.edges = <<>>
  /\ Len(log[2].input.nodes) = 2 /\ log[2].input.edges # <<>>
  /\ log[2].input.direction = log[1].input.direction

\* C3: getLayoutedElements returns one node for every node it was given, in
\* the same order and with the same id, each with a position of two numbers;
\* for no nodes and no edges it returns no nodes and does not throw.
C3_OneOutputPerInput ==
  /\ Returned =>
       /\ Len(resp.nodes) = Len(call.nodes)
       /\ \A i \in 1..Len(resp.nodes) :
            /\ resp.nodes[i].id = call.nodes[i].id
            /\ resp.nodes[i].position.x \in Int
            /\ resp.nodes[i].position.y \in Int
  /\ (StringDirection /\ call.nodes = <<>> /\ call.edges = <<>>) =>
       /\ pc # "threw"
       /\ pc = "done" => resp = Ok(<<>>, <<>>)

C3_Witness ==
  /\ Returned
  /\ Len(call.nodes) = 3 /\ Len(call.edges) = 1
  /\ \A nd \in Range(call.nodes) : call.edges[1].source # nd.id /\ call.edges[1].target # nd.id

\* the graph of the running call, its ranks by node key, and the edges of
\* the call that end at a key no node has
callGraph == buildGraph(call.nodes, call.edges)
callKeys == {NodeKey(call.nodes[i].id) : i \in 1..Len(call.nodes)}
callRank(key) ==
  rankedGraph(callGraph).nodes[IndexOf(callGraph.nodes, NodeKey(key))].rank
dangling(e) == NodeKey(e.source) \notin callKeys \/ NodeKey(e.target) \notin callKeys
HasDangling == \E j \in 1..Len(call.edges) : dangling(call.edges[j])

\* where the box of returned node i begins and ends along the axis nodes of
\* one rank are lined up on (x, or y for LR), and along the axis of the
\* ranks, in half pixels
orderLo(i) ==
  IF swapsAxes(call.direction) THEN resp.nodes[i].position.y ELSE resp.nodes[i].position.x
orderHi(i) ==
  orderLo(i) + HalfPx(IF swapsAxes(call.direction)
                      THEN getNodeDimensions(call.nodes[i]).height
                      ELSE getNodeDimensions(call.nodes[i]).width)
rankCentre(i) ==
  IF swapsAxes(call.direction)
  THEN resp.nodes[i].position.x + getNodeDimensions(call.nodes[i]).width
  ELSE resp.nodes[i].position.y + getNodeDimensions(call.nodes[i]).height

\* every input node has come back with a position
Complete ==
  /\ resp.status = 200
  /\ Len(resp.nodes) = Len(call.nodes)
  /\ \A i \in 1..Len(resp.nodes) :
       resp.nodes[i].position.x \in Int /\ resp.nodes[i].position.y \in Int

\* C4: two nodes with different ids that the layout puts in one rank are at
\* least nodesep (80) apart along the axis of that rank, so that their boxes
\* widened by 40 on every side do not overlap.
C4_SiblingsApart ==
  Returned =>
    \A i, j \in 1..Len(resp.nodes) :
      (/\ NodeKey(call.nodes[i].id) # NodeKey(call.nodes[j].id)
       /\ callRank(call.nodes[i].id) = callRank(call.nodes[j].id))
      => \/ orderLo(j) - orderHi(i) >= HalfPx(nodesep)
         \/ orderLo(i) - orderHi(j) >= HalfPx(nodesep)

C4_Witness ==
  /\ Returned
  /\ Len(call.nodes) = 3
  /\ callRank(call.nodes[1].id) = callRank(call.nodes[3].id)
  /\ callRank(call.nodes[2].id) # callRank(call.nodes[1].id)
  /\ call.nodes[1].files # call.nodes[3].files
  /\ call.direction = "LR"

\* C5: in a graph without a cycle every edge between two different nodes
\* goes to a later rank, and when both ends are nodes of the call the target
\* lies further along the axis of the ranks than the source.
C5_EdgesGoDown ==
  (Returned /\ ~cyclic(callGraph)) =>
    \A j \in 1..Len(call.edges) :
      LET u == call.edges[j].source
          v == call.edges[j].target
      IN u # v =>
           /\ callRank(v) >= callRank(u) + 1
           /\ \A a, b \in 1..Len(call.nodes) :
                (call.nodes[a].id = u /\ call.nodes[b].id = v)
                => rankCentre(b) > rankCentre(a)

C5_Witness ==
  /\ Returned
  /\ Len(call.nodes) = 3 /\ Len(call.edges) = 2
  /\ ~cyclic(callGraph)
  /\ call.edges[1].target = call.edges[2].source
  /\ ~HasDangling
  /\ callRank(call.edges[2].target) > callRank(call.edges[1].source) + 2

\* the edges of the call between nodes of the call
edgesWithin == SelectSeq(call.edges, LAMBDA e : ~dangling(e))

\* C6: an edge that ends at an id no node has leaves the positions as they
\* are without it.
C6_DanglingEdgeNoEffect ==
  (Returned /\ HasDangling) =>
    resp.nodes = getLayoutedElements(call.nodes, edgesWithin, call.direction).nodes

\* C7: an edge that ends at an id no node has does not make the layout
\* throw, and every node comes back with a position.
C7_DanglingEdgeTolerated ==
  (StringDirection /\ HasDangling) =>
    /\ pc # "threw"
    /\ pc = "done" => Complete

C7_Witness ==
  /\ Returned /\ HasDangling
  /\ Len(call.nodes) = 2
  /\ Len(call.edges) = 2
  /\ dangling(call.edges[1]) /\ dangling(call.edges[2])
  /\ call.edges[1].source = call.edges[1].target

\* the edge list has a cycle, a self loop, the same edge twice, or leaves
\* some node without any edge
HasSelfLoop == \E j \in 1..Len(call.edges) : call.edges[j].source = call.edges[j].target
HasParallel == \E j, k \in 1..Len(call.edges) : j # k /\ call.edges[j] = call.edges[k]
HasIsolated ==
  \E i \in 1..Len(call.nodes) : \A j \in 1..Len(call.edges) :
     call.nodes[i].id \notin {call.edges[j].source, call.edges[j].target}

Malformed(nd) == nd.id = Undefined \/ ("width" \in DOMAIN nd /\ nd.width <= 0)

\* C9: a request with a node that has no id or no positive width is answered
\* with an error and never with positions, and POST gives no node an id of
\* its own making.
C9_InvalidNodeRejected ==
  pc = "done" =>
    /\ ("nodes" \in DOMAIN req /\ \E i \in 1..Len(req.nodes) : Malformed(req.nodes[i]))
       => resp.status # 200
    /\ (req.method = "POST" /\ call # NoCall
        /\ \E i \in 1..Len(call.nodes) : call.nodes[i].id \in Range(IndexIds))
       => resp.status # 200

\* C10: a request whose layout is there and is neither TB nor LR is turned
\* down before getLayoutedElements is called, and is not answered with
\* positions.
C10_DirectionValidated ==
  (req # NoRequest /\ req.layout \notin {Undefined, "TB", "LR"}) =>
    /\ pc \notin {"called", "built", "laidout", "threw"}
    /\ pc = "done" => resp.status = 400

\* C11: PUT answers either 200 with every node of the request carrying a
\* position, or an error without nodes: 400 when nodes or edges are missing,
\* 500 when the layout threw.
C11_NoPartialResult ==
  (pc = "done" /\ req.method = "PUT") =>
    IF "nodes" \notin DOMAIN req \/ "edges" \notin DOMAIN req
    THEN resp.status = 400 /\ "nodes" \notin DOMAIN resp
    ELSE IF layoutThrows(dagreGraph, call.direction)
    THEN resp.status = 500 /\ "nodes" \notin DOMAIN resp
    ELSE /\ Complete
         /\ Len(resp.nodes) = Len(req.nodes)

C11_Witness ==
  /\ pc = "done" /\ req.method = "PUT"
  /\ "nodes" \in DOMAIN req /\ "edges" \in DOMAIN req
  /\ Len(req.nodes) = 2 /\ req.edges # <<>>
  /\ resp.status = 500

\* the centre of node i of a returned node list, in half pixels
centreX(nodes, i) == nodes[i].position.x + getNodeDimensions(nodes[i]).width
centreY(nodes, i) == nodes[i].position.y + getNodeDimensions(nodes[i]).height

\* the LR layout of the graph of the running call
sameGraphLR == getLayoutedElements(call.nodes, call.edges, "LR").nodes

\* the boxes of nodes i and j overlap when i stands at (xi, yi) and j at
\* (xj, yj), in half pixels
boxesOverlap(i, xi, yi, j, xj, yj) ==
  /\ xi < xj + HalfPx(getNodeDimensions(call.nodes[j]).width)
  /\ xj < xi + HalfPx(getNodeDimensions(call.nodes[i]).width)
  /\ yi < yj + HalfPx(getNodeDimensions(call.nodes[j]).height)
  /\ yj < yi + HalfPx(getNodeDimensions(call.nodes[i]).height)

\* C12 as stated: the TB positions with x and y swapped are a valid LR
\* layout, in which the boxes of two nodes never overlap.
C12_SwappedTBIsValidLR ==
  (Returned /\ call.direction = "TB") =>
    \A i, j \in 1..Len(resp.nodes) :
      NodeKey(call.nodes[i].id) # NodeKey(call.nodes[j].id) =>
        ~boxesOverlap(i, resp.nodes[i].position.y, resp.nodes[i].position.x,
                      j, resp.nodes[j].position.y, resp.nodes[j].position.x)

\* tb and lr have the same ranks and the same order in every rank with the
\* axes swapped, and no two boxes of lr overlap
ranksAndOrderAgree(tb, lr) ==
  \A i, j \in 1..Len(tb) :
    NodeKey(call.nodes[i].id) # NodeKey(call.nodes[j].id) =>
      /\ (centreY(tb, i) < centreY(tb, j)) <=> (centreX(lr, i) < centreX(lr, j))
      /\ (centreY(tb, i) = centreY(tb, j)) =>
           ((centreX(tb, i) < centreX(tb, j)) <=> (centreY(lr, i) < centreY(lr, j)))
      /\ ~boxesOverlap(i, lr[i].position.x, lr[i].position.y,
                       j, lr[j].position.x, lr[j].position.y)

\* C12, amended: the TB and the LR layout of a graph have the same ranks and
\* the same order in every rank with the axes swapped (a node lies before
\* another along y in TB exactly when it does along x in LR, and two nodes of
\* one rank lie along x in TB as they do along y in LR), and no two boxes of
\* the LR layout overlap.
C12_SameRanksAndOrder ==
  (Returned /\ call.direction = "TB") => ranksAndOrderAgree(resp.nodes, sameGraphLR)

C12_Witness ==
  /\ Returned /\ call.direction = "TB"
  /\ Len(call.nodes) = 3 /\ Len(call.edges) = 2
  /\ centreY(resp.nodes, 1) < centreY(resp.nodes, 2)
  /\ centreY(resp.nodes, 2) = centreY(resp.nodes, 3)
  /\ call.nodes[2].files # call.nodes[3].files
  /\ resp.nodes[1].position.x # sameGraphLR[1].position.y

\* the pairs of keys of ig that some chain of edges, taken in either
\* direction, joins: keys of one component
linked(ig) ==
  pathsOf(Range(ig.edges) \cup {<<e[2], e[1]>> : e \in Range(ig.edges)}
          \cup {<<k, k>> : k \in Range(ig.nodes)}, Len(ig.nodes))

\* the rank of a key of ig in the ranked graph g
rankIn(ig, g, key) == g.nodes[IndexOf(ig.nodes, key)].rank

\* every component of ig has a node of rank 0, along an edge between two
\* nodes of a graph without a cycle the rank grows, and the boxes of two
\* nodes of different components do not overlap
componentsApart(ig, g, L) ==
  /\ \A k \in Range(ig.nodes) :
       \E k2 \in Range(ig.nodes) : <<k, k2>> \in L /\ rankIn(ig, g, k2) = 0
  /\ ~cyclic(ig) =>
       \A e \in Range(ig.edges) : rankIn(ig, g, e[2]) >= rankIn(ig, g, e[1]) + 1
  /\ \A i, j \in 1..Len(call.nodes) :
       <<NodeKey(call.nodes[i].id), NodeKey(call.nodes[j].id)>> \notin L =>
         ~boxesOverlap(i, resp.nodes[i].position.x, resp.nodes[i].position.y,
                       j, resp.nodes[j].position.x, resp.nodes[j].position.y)

\* C13: when the graph falls into several components, every component is
\* ranked from rank 0, ranks grow along its edges, and no node of one
\* component overlaps a node of another.
C13_ComponentsIndependent ==
  (Returned /\ \E k1, k2 \in Range(callGraph.nodes) : <<k1, k2>> \notin linked(callGraph))
  => componentsApart(callGraph, rankedGraph(callGraph), linked(callGraph))

C13_Witness ==
  /\ Returned
  /\ Len(call.nodes) = 6 /\ Len(call.edges) = 4
  /\ <<call.nodes[1].id, call.nodes[3].id>> \in linked(callGraph)
  /\ <<call.nodes[4].id, call.nodes[6].id>> \in linked(callGraph)
  /\ <<call.nodes[1].id, call.nodes[4].id>> \notin linked(callGraph)
  /\ call.nodes[1].files = ManyFiles

\* where the box of returned node i begins and ends along the axis of the
\* ranks (y, or x for LR), in half pixels
rankLo(i) ==
  IF swapsAxes(call.direction) THEN resp.nodes[i].position.x ELSE resp.nodes[i].position.y
rankHi(i) ==
  rankLo(i) + HalfPx(IF swapsAxes(call.direction)
                     THEN getNodeDimensions(call.nodes[i]).width
                     ELSE getNodeDimensions(call.nodes[i]).height)

\* ranks lo < hi of the ranked graph g with no node ranked between them and
\* an edge of ig from one to the other
adjacentRanks(ig, g, lo, hi) ==
  /\ lo < hi
  /\ \A k \in Range(ig.nodes) : ~(lo < rankIn(ig, g, k) /\ rankIn(ig, g, k) < hi)
  /\ \E e \in Range(ig.edges) :
       {rankIn(ig, g, e[1]), rankIn(ig, g, e[2])} = {lo, hi}

\* the box of every returned node of a rank ends at least ranksep before
\* the box of every returned node of the adjacent rank begins
ranksApart(ig, g) ==
  \A i, j \in 1..Len(call.nodes) :
    adjacentRanks(ig, g, rankIn(ig, g, NodeKey(call.nodes[i].id)),
                         rankIn(ig, g, NodeKey(call.nodes[j].id)))
    => rankLo(j) - rankHi(i) >= HalfPx(ranksep)

\* C14: between the nodes of two adjacent ranks that an edge joins there is
\* a gap of at least ranksep (100) along the axis of the ranks, also when
\* nodes of height 100 and 130 share a rank.
C14_RanksApart ==
  Returned => ranksApart(callGraph, rankedGraph(callGraph))

C14_Witness ==
  /\ Returned
  /\ Len(call.nodes) = 3 /\ Len(call.edges) = 1
  /\ call.edges[1].source = call.nodes[2].id /\ call.edges[1].target = call.nodes[3].id
  /\ call.nodes[1].files = ManyFiles /\ call.nodes[2].files = 0
  /\ ~swapsAxes(call.direction)
  /\ resp.nodes[1].position.y = resp.nodes[2].position.y - extraHeightPx
  /\ rankLo(3) - rankHi(1) = HalfPx(ranksep)
  /\ rankLo(3) - rankHi(2) > HalfPx(ranksep)

\* the height a node is submitted with, in pixels
submittedHeight(node) ==
  IF node.files > filesThreshold THEN baseHeight + extraHeightPx ELSE baseHeight

\* C15: the position of a returned node is the top-left corner of its dagre
\* node: the centre dagre computed minus half of 280 in x and minus half of
\* the node's height (100, or 130 with more than 5 files) in y, which are the
\* width and height the node was given to dagre with, for TB and for LR.
C15_TopLeftOfOwnBox ==
  Returned =>
    \A i \in 1..Len(resp.nodes) :
      LET nodeWithPosition == graphNode(dagreGraph, call.nodes[i].id)
      IN /\ nodeWithPosition.width = baseWidth
         /\ nodeWithPosition.height = submittedHeight(call.nodes[i])
         /\ 2 * resp.nodes[i].position.x = 2 * nodeWithPosition.x - HalfPx(baseWidth)
         /\ 2 * resp.nodes[i].position.y =
              2 * nodeWithPosition.y - HalfPx(submittedHeight(call.nodes[i]))

C15_Witness ==
  /\ Returned
  /\ call.direction = "LR"
  /\ Len(call.nodes) = 2 /\ Len(call.edges) = 1
  /\ call.nodes[1].files = ManyFiles /\ call.nodes[2].files = 0
  /\ resp.nodes[1].position.y =
       graphNode(dagreGraph, call.nodes[1].id).y - (baseHeight + extraHeightPx)
  /\ resp.nodes[2].position.y = graphNode(dagreGraph, call.nodes[2].id).y - baseHeight
  /\ resp.nodes[2].position.x > resp.nodes[1].position.x

\* the graph of the call is a chain: every node has a key of its own and a
\* rank of its own, and every edge goes from a node to the node of the next
\* rank
IsChain(ig, g) ==
  /\ Len(call.nodes) >= 1
  /\ Len(ig.nodes) = Len(call.nodes)
  /\ \A i, j \in 1..Len(ig.nodes) : i # j => g.nodes[i].rank # g.nodes[j].rank
  /\ \A e \in Range(ig.edges) :
       /\ rankIn(ig, g, e[1]) < rankIn(ig, g, e[2])
       /\ \A k \in Range(ig.nodes) :
            ~(rankIn(ig, g, e[1]) < rankIn(ig, g, k) /\ rankIn(ig, g, k) < rankIn(ig, g, e[2]))
  /\ Len(ig.edges) = Len(ig.nodes) - 1

\* what the nodes 1..j ranked before node i take along the axis of the
\* ranks, ranksep included, in half pixels
RECURSIVE chainOffset(_, _, _, _)
chainOffset(ig, g, i, j) ==
  IF j = 0 THEN 0
  ELSE chainOffset(ig, g, i, j - 1)
       + IF rankIn(ig, g, NodeKey(call.nodes[j].id)) < rankIn(ig, g, NodeKey(call.nodes[i].id))
         THEN (rankHi(j) - rankLo(j)) + HalfPx(ranksep)
         ELSE 0

\* the margin before the first rank, and the margin along the ranks
rankMargin == IF swapsAxes(call.direction) THEN marginx ELSE marginy
orderMargin == IF swapsAxes(call.direction) THEN marginy ELSE marginx

\* every node of the chain begins, along the axis of the ranks, at the
\* margin plus what the ranks before it take
chainCumulative(ig, g) ==
  \A i \in 1..Len(call.nodes) :
    rankLo(i) = HalfPx(rankMargin) + chainOffset(ig, g, i, Len(call.nodes))

\* C16 as stated: in a chain of single-node ranks the rank-axis coordinate
\* follows the cumulative formula and the order-axis coordinate of every
\* node is the margin.
C16_ChainAtMargin ==
  (Returned /\ IsChain(callGraph, rankedGraph(callGraph))) =>
    /\ chainCumulative(callGraph, rankedGraph(callGraph))
    /\ \A i \in 1..Len(call.nodes) : orderLo(i) = HalfPx(orderMargin)

\* the nodes of the chain are centred on one line along the ranks: the
\* largest begins at the margin, every other by half the difference later
chainCentred ==
  \A i \in 1..Len(call.nodes) :
    2 * orderLo(i) =
      2 * HalfPx(orderMargin)
      + SetMax({orderHi(j) - orderLo(j) : j \in 1..Len(call.nodes)})
      - (orderHi(i) - orderLo(i))

\* C16: in a chain of single-node ranks the rank-axis coordinate of a node
\* is the margin (50) plus, for every rank before it, the extent of that
\* rank's node plus ranksep (100); along the other axis the nodes are
\* centred on one line, the largest of them at the margin (50), so that
\* nodes of one size all begin at the margin.
C16_ChainCumulative ==
  (Returned /\ IsChain(callGraph, rankedGraph(callGraph))) =>
    /\ chainCumulative(callGraph, rankedGraph(callGraph))
    /\ chainCentred

C16_Witness ==
  /\ Returned /\ IsChain(callGraph, rankedGraph(callGraph))
  /\ Len(call.nodes) = 3 /\ call.direction = "TB"
  /\ \A i \in 1..3 : call.nodes[i].files = 0
  /\ call.edges = <<[source |-> call.nodes[1].id, target |-> call.nodes[2].id],
                    [source |-> call.nodes[2].id, target |-> call.nodes[3].id]>>
  /\ resp.nodes[1].position = [x |-> HalfPx(50), y |-> HalfPx(50)]
  /\ resp.nodes[2].position = [x |-> HalfPx(50), y |-> HalfPx(250)]
  /\ resp.nodes[3].position = [x |-> HalfPx(50), y |-> HalfPx(450)]

\* C17: the layout changes nothing but position: a returned node has the
\* fields of its input node and position, each field other than position
\* with the value it came with; the edges are returned as they came, in
\* their order; and the nodes and edges of the request are, after the call,
\* what the client sent.
C17_OnlyPositionChanges ==
  Returned =>
    /\ Len(resp.nodes) = Len(call.nodes)
    /\ \A i \in 1..Len(resp.nodes) :
         /\ DOMAIN resp.nodes[i] = DOMAIN call.nodes[i] \cup {"position"}
         /\ \A f \in DOMAIN call.nodes[i] \ {"position"} :
              resp.nodes[i][f] = call.nodes[i][f]
    /\ resp.edges = call.edges
    /\ req.method = "PUT" => (call.nodes = req.nodes /\ call.edges = req.edges)

C17_Witness ==
  /\ Returned /\ req.method = "PUT"
  /\ Len(call.nodes) = 3 /\ Len(call.edges) = 2
  /\ call.edges[1] # call.edges[2]
  /\ call.nodes[2].files = ManyFiles /\ resp.nodes[2].files = ManyFiles
  /\ resp.nodes[2].position # call.nodes[2].position
  /\ resp.edges = req.edges

(***************************************************************************)
(* registry.ts.  A JavaScript value is a record with its type; a string    *)
(* carries its characters one by one, so that trim and toLowerCase act on  *)
(* it as they do in the code.  An LLMProviderId is one of five literals    *)
(* and is written as a TLA+ string, null as Null.                          *)
(***************************************************************************)
Str(chars) == [type |-> "string", chars |-> chars]
JsNull == [type |-> "null"]
JsUndefined == [type |-> "undefined"]
JsNumber == [type |-> "number"]

LowerCase == <<"a", "b", "c", "d", "e", "f", "g", "h", "i", "j", "k", "l", "m",
               "n", "o", "p", "q", "r", "s", "t", "u", "v", "w", "x", "y", "z">>
UpperCase == <<"A", "B", "C", "D", "E", "F", "G", "H", "I", "J", "K", "L", "M",
               "N", "O", "P", "Q", "R", "S", "T", "U", "V", "W", "X", "Y", "Z">>
WhiteSpace == {" ", "\t", "\n"}

\* String.prototype.toLowerCase
toLowerCase(chars) ==
  Tup([k \in 1..Len(chars) |->
     IF chars[k] \in Range(UpperCase)
     THEN LowerCase[IndexOf(UpperCase, chars[k])]
     ELSE chars[k]])

\* String.prototype.trimStart
RECURSIVE trimStart(_)
trimStart(chars) ==
  IF chars # <<>> /\ Head(chars) \in WhiteSpace THEN trimStart(Tail(chars)) ELSE chars

\* String.prototype.trim
trim(chars) == Reverse(trimStart(Reverse(trimStart(chars))))

\* the five ids of LLMProviderId (types.ts 1), as registry.ts spells them
Spelling ==
  [deepseek  |-> <<"d", "e", "e", "p", "s", "e", "e", "k">>,
   openai    |-> <<"o", "p", "e", "n", "a", "i">>,
   anthropic |-> <<"a", "n", "t", "h", "r", "o", "p", "i", "c">>,
   google    |-> <<"g", "o", "o", "g", "l", "e">>,
   ollama    |-> <<"o", "l", "l", "a", "m", "a">>]

LLMProviderId == DOMAIN Spelling

\* registry.ts 8-14: one adapter for every id, each with the id its class
\* declares
providerRegistry ==
  [deepseek  |-> [id |-> "deepseek", class |-> "DeepSeekAdapter"],
   openai    |-> [id |-> "openai", class |-> "OpenAIAdapter"],
   anthropic |-> [id |-> "anthropic", class |-> "AnthropicAdapter"],
   google    |-> [id |-> "google", class |-> "GoogleAdapter"],
   ollama    |-> [id |-> "ollama", class |-> "OllamaAdapter"]]

\* normalizeProviderId with the surrounding white space left in
normalizeUntrimmed(v) ==
  IF v.type \in {"null", "undefined"} \/ v.chars = <<>> THEN Null
  ELSE LET normalized == toLowerCase(v.chars)
       IN IF normalized = Spelling.deepseek THEN "deepseek"
          ELSE IF normalized = Spelling.openai THEN "openai"
          ELSE IF normalized = Spelling.anthropic THEN "anthropic"
          ELSE IF normalized = Spelling.google THEN "google"
          ELSE IF normalized = Spelling.ollama THEN "ollama"
          ELSE Null

\* normalizeProviderId (registry.ts 16-25), for a string, null or undefined
normalizeProviderId(v) ==
  IF v.type \in {"null", "undefined"} \/ v.chars = <<>> THEN Null
  ELSE LET normalized == toLowerCase(trim(v.chars))
       IN IF normalized = Spelling.deepseek THEN "deepseek"
          ELSE IF normalized = Spelling.openai THEN "openai"
          ELSE IF normalized = Spelling.anthropic THEN "anthropic"
          ELSE IF normalized = Spelling.google THEN "google"
          ELSE IF normalized = Spelling.ollama THEN "ollama"
          ELSE Null

\* an environment whose LLM_PROVIDER is not read
deepseekWhateverEnv(e) == "deepseek"

\* getProviderIdFromEnv (registry.ts 27-30)
getProviderIdFromEnv(e) ==
  LET normalized == normalizeProviderId(e.LLM_PROVIDER)
  IN IF normalized # Null THEN normalized ELSE "deepseek"

\* getProvider (registry.ts 32-35); e is process.env
getProvider(id, e) ==
  LET normalized == IF normalizeProviderId(id) # Null
                    THEN normalizeProviderId(id)
                    ELSE getProviderIdFromEnv(e)
  IN IF normalized \in DOMAIN providerRegistry
     THEN providerRegistry[normalized]
     ELSE providerRegistry.deepseek

(***************************************************************************)
(* The values the registry functions are called with.                      *)
(***************************************************************************)
\* words that spell no provider: another word, a provider with a space in
\* it, a provider with a letter too many, the beginning of a provider
OtherWords ==
  {<<"u", "n", "k", "n", "o", "w", "n">>,
   <<"o", "p", "e", "n", " ", "a", "i">>,
   <<"o", "p", "e", "n", "a", "i", "s">>,
   <<"d", "e", "e", "p">>,
   <<>>}

Words == {Spelling[id] : id \in LLMProviderId} \cup OtherWords

toUpperCase(chars) ==
  Tup([k \in 1..Len(chars) |->
     IF chars[k] \in Range(LowerCase)
     THEN UpperCase[IndexOf(LowerCase, chars[k])]
     ELSE chars[k]])

\* a word as it is, in capitals, capitalised, and with every second letter
\* a capital
Cased(word) ==
  {word, toUpperCase(word),
   Tup([k \in 1..Len(word) |-> IF k = 1 THEN toUpperCase(word)[k] ELSE word[k]]),
   Tup([k \in 1..Len(word) |-> IF k % 2 = 0 THEN toUpperCase(word)[k] ELSE word[k]])}

Paddings == {<<>>, <<" ">>, <<"\t", " ">>, <<"\n">>}

ProviderStrings ==
  {Str(l \o c \o r) : l \in Paddings, r \in Paddings, c \in UNION {Cased(w) : w \in Words}}

RegistryValues == {JsNull, JsUndefined} \cup ProviderStrings

\* process.env with nothing but LLM_PROVIDER in it
EnvOf(provider) ==
  [LLM_PROVIDER |-> provider,
   apiKey |-> [id \in LLMProviderId |-> JsUndefined],
   model |-> [id \in LLMProviderId |-> JsUndefined],
   models |-> [id \in LLMProviderId |-> JsUndefined]]

RegistryEnvs ==
  {EnvOf(v) : v \in {JsUndefined, Str(<<>>), Str(Spelling.openai),
                     Str(<<" ", "O", "l", "l", "a", "m", "a", "\n">>),
                     Str(<<"u", "n", "k", "n", "o", "w", "n">>)}}

(***************************************************************************)
(* SpecRegistry: in some environment, one of the functions of registry.ts  *)
(* is called with some value.                                              *)
(***************************************************************************)
repoIdle ==
  /\ pc = "idle"
  /\ req = NoRequest
  /\ call = NoCall
  /\ dagreGraph = NoGraph
  /\ resp = NoResponse
  /\ fed = FALSE
  /\ log = <<>>

chatIdle ==
  /\ chatPc = "idle"
  /\ chatReq = NoChatRequest
  /\ availability = NotChecked
  /\ chatResp = NoResponse
  /\ streaming = Null
  /\ forwarded = NotForwarded
  /\ controller = NoStream

InitRegistry ==
  /\ repoIdle
  /\ pageIdle
  /\ chatIdle
  /\ env \in RegistryEnvs
  /\ value \in RegistryValues
  /\ returned = NotCalled

NormalizeProviderId ==
  /\ returned = NotCalled
  /\ returned' = [fn |-> "normalizeProviderId", result |-> normalizeProviderId(value)]
  /\ UNCHANGED <<pc, req, call, dagreGraph, resp, fed, log>>
  /\ UNCHANGED <<env, value, chatPc, chatReq, availability, chatResp, streaming>>
  /\ UNCHANGED forwarded
  /\ UNCHANGED pageVars
  /\ UNCHANGED controller

GetProviderIdFromEnv ==
  /\ returned = NotCalled
  /\ returned' = [fn |-> "getProviderIdFromEnv", result |-> getProviderIdFromEnv(env)]
  /\ UNCHANGED <<pc, req, call, dagreGraph, resp, fed, log>>
  /\ UNCHANGED <<env, value, chatPc, chatReq, availability, chatResp, streaming>>
  /\ UNCHANGED forwarded
  /\ UNCHANGED pageVars
  /\ UNCHANGED controller

GetProvider ==
  /\ returned = NotCalled
  /\ returned' = [fn |-> "getProvider", result |-> getProvider(value, env)]
  /\ UNCHANGED <<pc, req, call, dagreGraph, resp, fed, log>>
  /\ UNCHANGED <<env, value, chatPc, chatReq, availability, chatResp, streaming>>
  /\ UNCHANGED forwarded
  /\ UNCHANGED pageVars
  /\ UNCHANGED controller

NextRegistry ==
  \/ NormalizeProviderId
  \/ GetProviderIdFromEnv
  \/ GetProvider

SpecRegistry == InitRegistry /\ [][NextRegistry]_vars

\* c is the letter d or its capital
sameLetter(c, d) ==
  \/ c = d
  \/ \E k \in 1..Len(LowerCase) : d = LowerCase[k] /\ c = UpperCase[k]

\* chars is the word, in any letter case, between white space
spells(chars, word) ==
  \E i \in 0..Len(chars) :
    /\ i + Len(word) <= Len(chars)
    /\ \A k \in 1..i : chars[k] \in WhiteSpace
    /\ \A k \in (i + Len(word) + 1)..Len(chars) : chars[k] \in WhiteSpace
    /\ \A k \in 1..Len(word) : sameLetter(chars[i + k], word[k])

\* the provider a value spells, Null when it spells none
spelled(v) ==
  IF v.type = "string" /\ \E id \in LLMProviderId : spells(v.chars, Spelling[id])
  THEN CHOOSE id \in LLMProviderId : spells(v.chars, Spelling[id])
  ELSE Null

\* C18: getProvider returns the adapter whose id is the provider its
\* argument spells; for an argument that is missing or spells no provider it
\* returns the adapter of the provider LLM_PROVIDER spells; and
\* getProviderIdFromEnv answers deepseek when LLM_PROVIDER is unset or
\* spells no provider, so that getProvider always returns an adapter.
C18_GetProviderResolves ==
  /\ returned.fn = "getProvider" =>
       /\ \E id \in LLMProviderId : returned.result = providerRegistry[id]
       /\ spelled(value) # Null => returned.result.id = spelled(value)
       /\ spelled(value) = Null =>
            returned.result.id = IF spelled(env.LLM_PROVIDER) # Null
                                 THEN spelled(env.LLM_PROVIDER)
                                 ELSE "deepseek"
  /\ returned.fn = "getProviderIdFromEnv" =>
       returned.result = IF spelled(env.LLM_PROVIDER) # Null
                         THEN spelled(env.LLM_PROVIDER)
                         ELSE "deepseek"

C18_Witness ==
  /\ returned.fn = "getProvider"
  /\ value = Str(<<"u", "n", "k", "n", "o", "w", "n">>)
  /\ env.LLM_PROVIDER = Str(<<" ", "O", "l", "l", "a", "m", "a", "\n">>)
  /\ returned.result = [id |-> "ollama", class |-> "OllamaAdapter"]

\* C19: normalizeProviderId returns the provider its argument spells,
\* whatever the letter case and the white space around it, for each of the
\* five providers, and null for the empty string, for null, for undefined
\* and for every other string.
C19_NormalizeSpelling ==
  returned.fn = "normalizeProviderId" =>
    /\ returned.result = spelled(value)
    /\ \A id \in LLMProviderId :
         (value.type = "string" /\ spells(value.chars, Spelling[id])) => returned.result = id
    /\ value \in {JsNull, JsUndefined, Str(<<>>)} => returned.result = Null

C19_Witness ==
  /\ returned.fn = "normalizeProviderId"
  /\ value = Str(<<"\t", " ", "A", "n", "t", "h", "r", "o", "p", "i", "c", " ">>)
  /\ returned.result = "anthropic"

(***************************************************************************)
(* The provider catalog (ai.ts 325-555).  The name of a model and an API   *)
(* key are strings whose characters are pieces of text without white space *)
(* and white space characters; <ID>_MODELS is the list of parts between    *)
(* its commas.                                                             *)
(***************************************************************************)
\* ai.ts 347-383: label and defaultModels of every provider
providerCatalog ==
  [deepseek  |-> [label |-> "DeepSeek", envKey |-> "DEEPSEEK_API_KEY",
                  defaultModels |-> << <<"deepseek-chat">>, <<"deepseek-reasoner">> >>],
   openai    |-> [label |-> "OpenAI", envKey |-> "OPENAI_API_KEY",
                  defaultModels |-> << <<"gpt-5-nano">>, <<"gpt-5-mini">> >>],
   anthropic |-> [label |-> "Anthropic", envKey |-> "ANTHROPIC_API_KEY",
                  defaultModels |-> << <<"claude-3-5-sonnet-20241022">>,
                                       <<"claude-3-7-sonnet-latest">> >>],
   google    |-> [label |-> "Google", envKey |-> "GOOGLE_API_KEY",
                  defaultModels |-> << <<"gemini-1.5-flash">>, <<"gemini-1.5-pro">> >>],
   ollama    |-> [label |-> "Ollama", envKey |-> "OLLAMA_API_KEY",
                  defaultModels |-> << <<"llama3.1">>, <<"qwen2.5">>, <<"mistral">> >>]]

\* unique (ai.ts 394-396): the first of equal values stays
unique(values) ==
  LET keep == {k \in 1..Len(values) : \A j \in 1..(k - 1) : values[j] # values[k]}
      RECURSIVE pick(_)
      pick(k) == IF k > Len(values) THEN <<>>
                 ELSE (IF k \in keep THEN <<values[k]>> ELSE <<>>) \o pick(k + 1)
  IN pick(1)

\* parseModels (ai.ts 398-404), from the parts raw.split(",") gives
parseModels(raw) ==
  IF raw.type = "undefined" \/ raw.parts = << <<>> >> THEN <<>>
  ELSE SelectSeq(Tup([k \in 1..Len(raw.parts) |-> trim(raw.parts[k])]),
                 LAMBDA part : part # <<>>)

\* isPlaceholderApiKey (ai.ts 406-419)
isPlaceholderApiKey(chars) ==
  LET normalized == toLowerCase(trim(chars))
  IN \/ normalized = <<>>
     \/ normalized \in {<<"sk-placeholder">>, <<"placeholder">>, <<"ollama">>,
                        <<"your_api_key">>, <<"your-key">>}
     \/ \E k \in 1..Len(normalized) : normalized[k] \in {"changeme", "replace", "example"}

\* getProviderModels (ai.ts 444-454)
getProviderModels(id, e) ==
  LET config == providerCatalog[id]
      modelFromEnv == IF e.model[id].type = "string" THEN trim(e.model[id].chars) ELSE <<>>
      envModels == parseModels(e.models[id])
  IN unique(SelectSeq(envModels \o <<modelFromEnv>> \o config.defaultModels,
                      LAMBDA name : name # <<>>))

\* hasConfiguredApiKey (ai.ts 456-461)
hasConfiguredApiKey(id, e) ==
  LET keyValue == e.apiKey[id]
  IN IF keyValue.type = "undefined" \/ keyValue.chars = <<>> THEN FALSE
     ELSE ~isPlaceholderApiKey(keyValue.chars)

\* getProviderAvailability (ai.ts 513-545); ok is what the health check of
\* validateProviderConnection (463-511) found at the provider
getProviderAvailability(id, e, ok) ==
  IF ~hasConfiguredApiKey(id, e)
  THEN [id |-> id, label |-> providerCatalog[id].label, models |-> getProviderModels(id, e),
        hasApiKey |-> FALSE, validated |-> FALSE, available |-> FALSE,
        reason |-> <<"Missing or invalid", providerCatalog[id].envKey, "in .env.local">>]
  ELSE [id |-> id, label |-> providerCatalog[id].label, models |-> getProviderModels(id, e),
        hasApiKey |-> TRUE, validated |-> ok, available |-> ok,
        reason |-> IF ok THEN <<>> ELSE <<"Validation failed">>]

(***************************************************************************)
(* POST of /api/chat (chat/route.ts 61-195).  What the handler fetches     *)
(* from GitHub for the prompt (78-107) and the history it passes on        *)
(* (134-144) do not bear on the answer's status and are left out.          *)
(***************************************************************************)
\* route.ts 109: normalizeProviderId(modelSettings?.providerId ?? null)
requestProviderId(body) ==
  normalizeProviderId(IF body.providerId.type = "undefined" THEN JsNull ELSE body.providerId)

\* route.ts 110-112: the trimmed model when it is a string with more than
\* white space in it, null otherwise
requestModel(body) ==
  IF body.model.type = "string" /\ trim(body.model.chars) # <<>>
  THEN Str(trim(body.model.chars))
  ELSE JsNull

\* route.ts 109: value.trim is not a function
normalizeThrows(body) == body.providerId.type = "number"

includes(list, x) == \E k \in 1..Len(list) : list[k] = x

\* route.ts 119-131 without the check of availability.available
validateModelOnly(av, model) ==
  IF av.models = <<>> \/ ~includes(av.models, IF model.type = "string" THEN model.chars
                                             ELSE av.models[1])
  THEN [status |-> 400, error |-> "Selected model is not available",
        reply |-> <<"Selected model is not available for", av.label>>]
  ELSE NoResponse

\* route.ts 119-131: the answer when the selection does not pass, NoResponse
\* when it does
validateSelection(av, model) ==
  IF av.models = <<>> \/ ~includes(av.models, IF model.type = "string" THEN model.chars
                                             ELSE av.models[1])
  THEN [status |-> 400, error |-> "Selected model is not available",
        reply |-> <<"Selected model is not available for", av.label>>]
  ELSE IF ~av.available
  THEN [status |-> 400, error |-> "Selected provider is unavailable",
        reply |-> IF av.reason # <<>> THEN av.reason
                  ELSE <<"Selected provider is unavailable. Open Settings to fix it.">>]
  ELSE NoResponse

JsArray(items) == [type |-> "array", items |-> items]

\* Array.prototype.slice(-n): the last n of a list
sliceLast(list, n) == SubSeq(list, Max2(1, Len(list) - n + 1), Len(list))

\* route.ts 138-141: the entry is an object with a string as content and
\* the role user or assistant
keptInHistory(entry) ==
  /\ entry.type = "object"
  /\ "content" \in DOMAIN entry /\ entry.content.type = "string"
  /\ "role" \in DOMAIN entry /\ entry.role \in {"user", "assistant"}

\* route.ts 136-144 written so that the first MAX_HISTORY entries stay
sanitizeHistoryOldest(history) ==
  IF history.type # "array" THEN JsUndefined
  ELSE LET kept == SelectSeq(history.items, keptInHistory)
           mapped == Tup([k \in 1..Len(kept) |->
                        [role |-> kept[k].role, content |-> kept[k].content]])
       IN JsArray(SubSeq(mapped, 1, Min2(Len(mapped), MAX_HISTORY)))

\* route.ts 136-144: sanitizedHistory
sanitizeHistory(history) ==
  IF history.type # "array" THEN JsUndefined
  ELSE LET kept == SelectSeq(history.items, keptInHistory)
           mapped == Tup([k \in 1..Len(kept) |->
                        [role |-> kept[k].role, content |-> kept[k].content]])
       IN JsArray(sliceLast(mapped, MAX_HISTORY))

\* the values a client sends as message, as providerId and as model
Messages == {JsUndefined, Str(<<>>), Str(<<"how", " ", "to", " ", "run">>)}
ProviderIdValues ==
  {JsUndefined, JsNull, JsNumber, Str(<<>>),
   Str(Spelling.openai), Str(<<" ", "O", "p", "e", "n", "A", "I", "\n">>),
   Str(toUpperCase(Spelling.ollama)), Str(<<"u", "n", "k", "n", "o", "w", "n">>)}
ModelValues ==
  {JsUndefined, JsNumber, Str(<<" ">>), Str(<<"gpt-5-nano">>),
   Str(<<" ", "gpt-5-nano", " ">>), Str(<<"custom-a">>), Str(<<"llama3.1">>),
   Str(<<"bogus">>)}

\* an entry of a history, the k-th: of the user (with an id), of the
\* assistant (with a time), of the system, with a number as content,
\* without content, and null
historyEntry(kind, k) ==
  CASE kind = "user" ->
         [type |-> "object", role |-> "user", content |-> [type |-> "string", text |-> k],
          id |-> k]
    [] kind = "assistant" ->
         [type |-> "object", role |-> "assistant",
          content |-> [type |-> "string", text |-> k], timestamp |-> k]
    [] kind = "system" ->
         [type |-> "object", role |-> "system", content |-> [type |-> "string", text |-> k]]
    [] kind = "number" ->
         [type |-> "object", role |-> "user", content |-> [type |-> "number", text |-> k]]
    [] kind = "empty" -> [type |-> "object", role |-> "user"]
    [] OTHER -> JsNull

\* the kinds of the entries of a history, by their place
HistoryPatterns ==
  {[k \in 1..MaxHistoryLen |-> IF k % 2 = 1 THEN "user" ELSE "assistant"],
   [k \in 1..MaxHistoryLen |-> IF k % 3 = 0 THEN "system"
                               ELSE IF k % 2 = 1 THEN "user" ELSE "assistant"],
   [k \in 1..MaxHistoryLen |-> IF k % 4 = 1 THEN "null"
                               ELSE IF k % 4 = 2 THEN "number"
                               ELSE IF k % 4 = 3 THEN "user" ELSE "assistant"],
   [k \in 1..MaxHistoryLen |-> IF k = 1 THEN "empty"
                               ELSE IF k = MaxHistoryLen THEN "system" ELSE "user"]}

\* what a client sends as history: nothing, values that are no array, and
\* arrays of up to MaxHistoryLen entries
Histories ==
  {JsUndefined, JsNull, JsNumber, [type |-> "object"]}
  \cup {JsArray(Tup([k \in 1..n |-> historyEntry(p[k], k)])) :
          n \in 0..MaxHistoryLen, p \in HistoryPatterns}

\* the requests without a history, and the requests with one
ChatBodies ==
  {[message |-> msg, providerId |-> id, model |-> mdl, history |-> JsUndefined] :
     msg \in Messages, id \in ProviderIdValues, mdl \in ModelValues}
  \cup {[message |-> Str(<<"how", " ", "to", " ", "run">>), providerId |-> id,
         model |-> JsUndefined, history |-> h] :
          id \in {JsUndefined, Str(Spelling.openai)}, h \in Histories}

\* the API keys of an environment: none, a real one for every provider, and
\* a placeholder for OpenAI among real ones
ApiKeys ==
  {[id \in LLMProviderId |-> JsUndefined],
   [id \in LLMProviderId |-> Str(<<"sk-live">>)],
   [id \in LLMProviderId |->
      IF id = "openai" THEN Str(<<" ", "sk-placeholder">>) ELSE Str(<<"sk-live">>)]}

\* the models of an environment: the defaults, or OPENAI_MODELS and
\* OPENAI_MODEL set as well
ModelEnvs ==
  {[model |-> [id \in LLMProviderId |-> JsUndefined],
    models |-> [id \in LLMProviderId |-> JsUndefined]],
   [model |-> [id \in LLMProviderId |->
                 IF id = "openai" THEN Str(<<"custom-b", " ">>) ELSE JsUndefined],
    models |-> [id \in LLMProviderId |->
                 IF id = "openai"
                 THEN [type |-> "string",
                       parts |-> << <<" ", "custom-a">>, <<" ">>, <<"gpt-5-mini">> >>]
                 ELSE JsUndefined]]}

ChatEnvs ==
  {[LLM_PROVIDER |-> v, apiKey |-> keys, model |-> me.model, models |-> me.models] :
     v \in {JsUndefined, Str(Spelling.google)}, keys \in ApiKeys, me \in ModelEnvs}

\* SpecChat: in some environment, a request comes to /api/chat and is
\* answered
InitChat ==
  /\ repoIdle
  /\ pageIdle
  /\ chatIdle
  /\ env \in ChatEnvs
  /\ value = NoValue
  /\ returned = NotCalled

ChatArrives ==
  /\ chatPc = "idle"
  /\ \E body \in ChatBodies : chatReq' = body
  /\ chatPc' = "received"
  /\ UNCHANGED <<pc, req, call, dagreGraph, resp, fed, log>>
  /\ UNCHANGED <<env, value, returned, availability, chatResp, streaming>>
  /\ UNCHANGED forwarded
  /\ UNCHANGED pageVars
  /\ UNCHANGED controller

\* route.ts 61-116: the message must be there; the settings are read, which
\* throws into the catch block (188-194) for a providerId that is no string
ChatPost ==
  /\ chatPc = "received"
  /\ IF chatReq.message.type # "string" \/ chatReq.message.chars = <<>>
     THEN /\ chatPc' = "done"
          /\ chatResp' = [status |-> 400, error |-> "Message is required"]
     ELSE IF normalizeThrows(chatReq)
     THEN /\ chatPc' = "done"
          /\ chatResp' = [status |-> 500, error |-> "Failed to process chat"]
     ELSE /\ chatPc' = IF requestProviderId(chatReq) # Null THEN "checking" ELSE "validated"
          /\ UNCHANGED chatResp
  /\ UNCHANGED <<pc, req, call, dagreGraph, resp, fed, log>>
  /\ UNCHANGED <<env, value, returned, chatReq, availability, streaming>>
  /\ UNCHANGED forwarded
  /\ UNCHANGED pageVars
  /\ UNCHANGED controller

\* route.ts 117: await getProviderAvailability(providerId, model)
CheckAvailability ==
  /\ chatPc = "checking"
  /\ \E ok \in BOOLEAN :
       availability' = getProviderAvailability(requestProviderId(chatReq), env, ok)
  /\ chatPc' = "checked"
  /\ UNCHANGED <<pc, req, call, dagreGraph, resp, fed, log>>
  /\ UNCHANGED <<env, value, returned, chatReq, chatResp, streaming>>
  /\ UNCHANGED forwarded
  /\ UNCHANGED pageVars
  /\ UNCHANGED controller

\* route.ts 119-131: 400 for a model that is not in the list and for a
\* provider that is not available
ValidateSelection ==
  /\ chatPc = "checked"
  /\ chatResp' = validateSelection(availability, requestModel(chatReq))
  /\ chatPc' = IF chatResp' = NoResponse THEN "validated" ELSE "done"
  /\ UNCHANGED <<pc, req, call, dagreGraph, resp, fed, log>>
  /\ UNCHANGED <<env, value, returned, chatReq, availability, streaming>>
  /\ UNCHANGED forwarded
  /\ UNCHANGED pageVars
  /\ UNCHANGED controller

\* route.ts 146-186 and chatStreamWithContext (ai.ts 298-323): the stream
\* of the provider getProvider finds is started and goes into the response
\* encoder.encode(text)
encode(text) == [bytes |-> text]

\* the ReadableStream when start(controller) is first called: nothing is
\* enqueued, the provider's generator has given nothing
newStream ==
  [state |-> "readable", queue |-> <<>>, closes |-> 0, cancelled |-> FALSE,
   start |-> "running", deltas |-> 0, yielded |-> <<>>, failed |-> FALSE]

\* controller.enqueue(chunk) and controller.close() throw a TypeError on a
\* stream that is not readable
enqueueThrows(c) == c.state # "readable"
closeThrows(c) == c.state # "readable"

enqueueFirst(c, chunk) == [c EXCEPT !.queue = <<chunk>> \o @]

enqueue(c, chunk) == [c EXCEPT !.queue = @ \o <<chunk>>]

close(c) == [c EXCEPT !.state = "closed", !.closes = @ + 1]

\* the catch block of start: the error is enqueued and the stream closed;
\* when the enqueue throws, start rejects
caught(c) ==
  IF enqueueThrows(c) THEN [c EXCEPT !.start = "rejected"]
  ELSE [close(enqueue(c, encode("\n\nError: Streaming failed"))) EXCEPT !.start = "returned"]

\* the body of the for await loop for one token
forwardToken(c, token) ==
  IF enqueueThrows(c) THEN caught(c) ELSE enqueue(c, encode(token))

\* the generator is done: controller.close()
finish(c) ==
  IF closeThrows(c) THEN caught(c) ELSE [close(c) EXCEPT !.start = "returned"]

StartStream ==
  /\ chatPc = "validated"
  /\ \E providerId \in {requestProviderId(chatReq)} :
       streaming' = getProvider(IF providerId = Null THEN JsNull
                                ELSE Str(Spelling[providerId]), env).id
  /\ forwarded' = [history |-> sanitizeHistory(chatReq.history)]
  /\ chatResp' = [status |-> 200, stream |-> TRUE]
  /\ chatPc' = "done"
  /\ UNCHANGED <<pc, req, call, dagreGraph, resp, fed, log>>
  /\ UNCHANGED <<env, value, returned, chatReq, availability>>
  /\ UNCHANGED pageVars
  /\ controller' = newStream

NextChat ==
  \/ ChatArrives
  \/ ChatPost
  \/ CheckAvailability
  \/ ValidateSelection
  \/ StartStream

SpecChat == InitChat /\ [][NextChat]_vars

(***************************************************************************)
(* SpecStream: the handler of /api/chat has validated a request; it        *)
(* answers with a body, and start(controller) of the body (route.ts        *)
(* 163-177) is fed by chatStream of the provider                           *)
(* (OpenAICompatibleAdapter.ts 55-76) and read, or cancelled, by the       *)
(* client.  start runs on whenever the generator has something for it, and *)
(* the generator, a request to the provider that has a time limit, goes on *)
(* until it is done or has failed.                                         *)
(***************************************************************************)
MaxDeltas == 3

\* the k-th piece of text the provider sends
Tokens == <<"t1", "t2", "t3">>

streamVars == <<pc, req, call, dagreGraph, resp, fed, log,
                env, value, returned, chatPc, chatReq, availability, chatResp,
                streaming, forwarded>>

\* the provider sends a chunk: chatStream yields its delta when it has one,
\* and start enqueues what was yielded
ProviderSends ==
  /\ controller # NoStream
  /\ controller.start = "running"
  /\ controller.deltas < MaxDeltas
  /\ \E delta \in {"", Tokens[controller.deltas + 1]} :
       controller' =
         IF delta = "" THEN [controller EXCEPT !.deltas = @ + 1]
         ELSE [forwardToken(controller, delta) EXCEPT !.deltas = @ + 1,
                                                        !.yielded = @ \o <<delta>>]
  /\ UNCHANGED streamVars
  /\ UNCHANGED pageVars

\* the provider's stream ends
ProviderEnds ==
  /\ controller # NoStream
  /\ controller.start = "running"
  /\ controller' = finish(controller)
  /\ UNCHANGED streamVars
  /\ UNCHANGED pageVars

\* the request to the provider, or its stream, fails
ProviderFails ==
  /\ controller # NoStream
  /\ controller.start = "running"
  /\ controller' = [caught(controller) EXCEPT !.failed = TRUE]
  /\ UNCHANGED streamVars
  /\ UNCHANGED pageVars

\* the client cancels the body, or goes away
ClientCancels ==
  /\ controller # NoStream
  /\ controller.state = "readable"
  /\ controller' = [close(controller) EXCEPT !.cancelled = TRUE]
  /\ UNCHANGED streamVars
  /\ UNCHANGED pageVars

ProviderStep ==
  \/ ProviderSends
  \/ ProviderEnds
  \/ ProviderFails

\* the requests without a history that leave the model to the provider
StreamBodies == {body \in ChatBodies : body.history = JsUndefined /\ body.model = JsUndefined}

\* a request has come through ChatPost, CheckAvailability and
\* ValidateSelection
InitStream ==
  /\ repoIdle
  /\ pageIdle
  /\ env \in ChatEnvs
  /\ value = NoValue
  /\ returned = NotCalled
  /\ chatPc = "validated"
  /\ chatReq \in StreamBodies
  /\ chatReq.message.type = "string"
  /\ chatReq.message.chars # <<>>
  /\ ~normalizeThrows(chatReq)
  /\ IF requestProviderId(chatReq) = Null THEN availability = NotChecked
     ELSE \E ok \in BOOLEAN :
            /\ availability = getProviderAvailability(requestProviderId(chatReq), env, ok)
            /\ validateSelection(availability, requestModel(chatReq)) = NoResponse
  /\ chatResp = NoResponse
  /\ streaming = Null
  /\ forwarded = NotForwarded
  /\ controller = NoStream

NextStream ==
  \/ StartStream
  \/ ProviderSends
  \/ ProviderEnds
  \/ ProviderFails
  \/ ClientCancels

SpecStream ==
  /\ InitStream
  /\ [][NextStream]_vars
  /\ WF_vars(StartStream)
  /\ WF_vars(ProviderStep)

\* the request has a message and names a provider
NamesProvider ==
  /\ chatReq # NoChatRequest
  /\ chatReq.message.type = "string" /\ chatReq.message.chars # <<>>
  /\ spelled(chatReq.providerId) # Null

\* the request selects a model that is not in the list of its provider
ModelNotListed ==
  /\ chatReq.model.type = "string"
  /\ \E k \in 1..Len(chatReq.model.chars) : chatReq.model.chars[k] \notin WhiteSpace
  /\ ~includes(getProviderModels(spelled(chatReq.providerId), env),
               trim(chatReq.model.chars))

\* C20: provider and model are validated before the stream: a request that
\* names a provider has that provider's availability looked up; when its
\* model is not in the provider's list or the provider is not available it
\* is answered 400 with an error, and the chat stream of a provider is never
\* started for it.
C20_ValidatedBeforeStream ==
  NamesProvider =>
    /\ chatPc = "done" =>
         /\ availability # NotChecked
         /\ availability.id = spelled(chatReq.providerId)
         /\ (ModelNotListed \/ ~availability.available) =>
              /\ chatResp.status = 400
              /\ "error" \in DOMAIN chatResp
    /\ streaming # Null =>
         /\ availability # NotChecked
         /\ availability.available
         /\ ~ModelNotListed

C20_Witness ==
  /\ chatPc = "done" /\ NamesProvider
  /\ chatReq.providerId = Str(<<" ", "O", "p", "e", "n", "A", "I", "\n">>)
  /\ chatReq.model = Str(<<" ", "gpt-5-nano", " ">>)
  /\ availability # NotChecked /\ availability.hasApiKey /\ ~availability.available
  /\ ~ModelNotListed
  /\ chatResp.status = 400 /\ chatResp.error = "Selected provider is unavailable"
  /\ streaming = Null

\* the places of the entries of the request's history that have the role
\* user or assistant and a string as content
goodPlaces ==
  {k \in 1..Len(chatReq.history.items) :
     LET entry == chatReq.history.items[k]
     IN /\ entry.type = "object"
        /\ {"role", "content"} \subseteq DOMAIN entry
        /\ entry.role \in {"user", "assistant"}
        /\ entry.content.type = "string"}

\* the good place with n good places after it
placeFromEnd(n) ==
  CHOOSE k \in goodPlaces : Cardinality({g \in goodPlaces : g > k}) = n

\* C21: the history the chat route forwards holds, of the entries of the
\* request's history with role user or assistant and a string as content,
\* the last 20 at most, in their order, each with its role and its content
\* and nothing else; when the request's history is no array, no history is
\* forwarded.
C21_HistorySanitized ==
  forwarded # NotForwarded =>
    IF chatReq.history.type # "array"
    THEN forwarded.history = JsUndefined
    ELSE LET out == forwarded.history.items
         IN /\ forwarded.history.type = "array"
            /\ Len(out) = Min2(Cardinality(goodPlaces), 20)
            /\ \A j \in 1..Len(out) :
                 LET entry == chatReq.history.items[placeFromEnd(Len(out) - j)]
                 IN /\ DOMAIN out[j] = {"role", "content"}
                    /\ out[j].role = entry.role
                    /\ out[j].content = entry.content

C21_Witness ==
  /\ forwarded # NotForwarded
  /\ chatReq.history.type = "array"
  /\ Len(chatReq.history.items) = 23
  /\ Cardinality(goodPlaces) = 21
  /\ Len(forwarded.history.items) = 20
  /\ forwarded.history.items[1].content.text = 3
  /\ forwarded.history.items[20].content.text = 22

(***************************************************************************)
(* parseAndValidateImportJson (import.ts, kept in registry.test.ts 25-171) *)
(* as far as ids go.  json is what JSON.parse made of the file; an id is a *)
(* string, a number, null or undefined.                                    *)
(***************************************************************************)
Num(n) == [type |-> "number", n |-> n]
Digits == <<"0", "1", "2", "3">>

\* String(v) for an id
String(v) ==
  CASE v.type = "string" -> v.chars
    [] v.type = "number" -> <<Digits[v.n + 1]>>
    [] v.type = "null" -> <<"null">>
    [] OTHER -> <<"undefined">>

\* line 47: the k-th id freshId makes; the time and the random number in it
\* make it differ from the others
freshId(k) == [imp |-> k]

\* line 91: n.id ?? `node-${index}`, index counting from 0
oldId(n, index) ==
  IF n.id.type \in {"null", "undefined"} THEN Str(<<"node-", Digits[index + 1]>>) ELSE n.id

\* lines 84-93: idMap after the nodes; a later node takes the key of an
\* earlier one with the same String(oldId)
idMapOf(items) ==
  [key \in {String(oldId(items[i], i - 1)) : i \in 1..Len(items)} |->
     freshId(CHOOSE i \in 1..Len(items) :
               /\ String(oldId(items[i], i - 1)) = key
               /\ \A j \in (i + 1)..Len(items) : String(oldId(items[j], j - 1)) # key)]

\* Map.prototype.get
mapGet(idMap, key) == IF key \in DOMAIN idMap THEN idMap[key] ELSE JsUndefined

Dropped == [dropped |-> TRUE]

\* lines 127-143 written so that an edge is dropped only when both of its
\* ends are missing
remapEdgeEitherEnd(idMap, e) ==
  IF e.type # "object" THEN Dropped
  ELSE LET sourceId == mapGet(idMap, String(e.source))
           targetId == mapGet(idMap, String(e.target))
       IN IF sourceId = JsUndefined /\ targetId = JsUndefined THEN Dropped
          ELSE [source |-> sourceId, target |-> targetId, type |-> "custom"]

\* lines 127-143: an edge with its ends looked up in idMap, dropped when it
\* is no object or an end is missing
remapEdge(idMap, e) ==
  IF e.type # "object" THEN Dropped
  ELSE LET sourceId == mapGet(idMap, String(e.source))
           targetId == mapGet(idMap, String(e.target))
       IN IF sourceId = JsUndefined \/ targetId = JsUndefined THEN Dropped
          ELSE [source |-> sourceId, target |-> targetId, type |-> "custom"]

\* lines 86-119: every node with a fresh id
importNodes(items) ==
  Tup([i \in 1..Len(items) |-> [id |-> freshId(i), type |-> "enhanced"]])

\* lines 126-145: the edges that stay, each with a fresh id made after
\* those of the n nodes
importEdges(idMap, items, n) ==
  LET kept == SelectSeq(Tup([j \in 1..Len(items) |-> remapEdge(idMap, items[j])]),
                        LAMBDA e : e # Dropped)
  IN Tup([j \in 1..Len(kept) |->
        [id |-> freshId(n + j), source |-> kept[j].source, target |-> kept[j].target,
         type |-> kept[j].type]])

Threw(message) == [threw |-> message]

\* lines 54-171
parseAndValidateImportJson(json) ==
  IF json.type = "invalid" THEN Threw("The file does not contain valid JSON.")
  ELSE IF json.type # "object"
  THEN Threw("Expected a JSON object with \"nodes\" and \"edges\" arrays.")
  ELSE IF json.version.type = "string" /\ json.version.chars \notin {<<>>, <<"1.0">>}
  THEN Threw("Unsupported export version")
  ELSE IF json.nodes.type # "array"
  THEN Threw("Missing or invalid \"nodes\" array in the JSON file.")
  ELSE IF \E i \in 1..Len(json.nodes.items) : json.nodes.items[i].type # "object"
  THEN Threw("Node is not a valid object.")
  ELSE IF json.edges.type # "array"
  THEN Threw("Missing or invalid \"edges\" array in the JSON file.")
  ELSE [nodes |-> importNodes(json.nodes.items),
        edges |-> importEdges(idMapOf(json.nodes.items), json.edges.items,
                              Len(json.nodes.items))]

\* the ids of the nodes and the ends of the edges of a file
ImportIds == {Str(<<"a">>), Num(1), Str(<<"1">>), JsUndefined}
ImportEnds == {Str(<<"a">>), Num(1), Str(<<"node-", "1">>), Str(<<"zz">>)}

ImportNodeLists ==
  UNION {{Tup(f) : f \in [1..n -> {[type |-> "object", id |-> v] : v \in ImportIds}]} :
           n \in 0..MaxImportNodes}

ImportEdgeLists ==
  UNION {{Tup(f) : f \in [1..n -> {JsNull} \cup
                                  {[type |-> "object", source |-> s, target |-> t] :
                                     s \in ImportEnds, t \in ImportEnds}]} :
           n \in 0..MaxImportEdges}

ImportFile(version, nodes, edges) ==
  [type |-> "object", version |-> version, nodes |-> nodes, edges |-> edges]

\* the files a user imports: exported graphs, and files that are rejected
ImportJsons ==
  {ImportFile(Str(<<"1.0">>), JsArray(ns), JsArray(es)) :
     ns \in ImportNodeLists, es \in ImportEdgeLists}
  \cup {[type |-> "invalid"], JsNull, JsArray(<<>>),
        ImportFile(Str(<<"2.0">>), JsArray(<<>>), JsArray(<<>>)),
        ImportFile(JsUndefined, JsUndefined, JsArray(<<>>)),
        ImportFile(JsUndefined, JsArray(<<JsNull>>), JsArray(<<>>)),
        ImportFile(JsUndefined, JsArray(<<>>), JsUndefined)}

\* SpecImport: a file is imported
InitImport ==
  /\ repoIdle
  /\ pageIdle
  /\ chatIdle
  /\ env = NoEnv
  /\ value \in ImportJsons
  /\ returned = NotCalled

ParseAndValidateImportJson ==
  /\ returned = NotCalled
  /\ returned' = [fn |-> "parseAndValidateImportJson",
                  result |-> parseAndValidateImportJson(value)]
  /\ UNCHANGED <<pc, req, call, dagreGraph, resp, fed, log>>
  /\ UNCHANGED <<env, value, chatPc, chatReq, availability, chatResp, streaming, forwarded>>
  /\ UNCHANGED pageVars
  /\ UNCHANGED controller

NextImport ==
  \/ ParseAndValidateImportJson

SpecImport == InitImport /\ [][NextImport]_vars

\* a file was imported and not rejected
Imported ==
  /\ returned.fn = "parseAndValidateImportJson"
  /\ "nodes" \in DOMAIN returned.result

\* the key of the i-th node of the file: its id as a string, node-<i - 1>
\* when it has none
fileKey(i) ==
  LET id == value.nodes.items[i].id
  IN IF id.type \in {"null", "undefined"} THEN <<"node-", Digits[i]>> ELSE String(id)

\* the places of the edges of the file that are objects with both ends at
\* keys of nodes of the file
linkedPlaces ==
  {j \in 1..Len(value.edges.items) :
     LET e == value.edges.items[j]
     IN /\ e.type = "object"
        /\ \E i \in 1..Len(value.nodes.items) : fileKey(i) = String(e.source)
        /\ \E i \in 1..Len(value.nodes.items) : fileKey(i) = String(e.target)}

\* the linked place with n linked places before it
linkedPlace(n) ==
  CHOOSE j \in linkedPlaces : Cardinality({h \in linkedPlaces : h < j}) = n

\* C22: an import gives every node and every edge an id of its own; the
\* returned edges are, in their order, the edges of the file whose source
\* and target are ids of nodes of the file, each with its source and its
\* target replaced by the new id of a node that had that id; so the source
\* and the target of every returned edge are ids of returned nodes.
C22_ImportKeepsGraphConsistent ==
  Imported =>
    LET nodes == returned.result.nodes
        edges == returned.result.edges
        all == nodes \o edges
    IN /\ Len(nodes) = Len(value.nodes.items)
       /\ \A i, j \in 1..Len(all) : i # j => all[i].id # all[j].id
       /\ Len(edges) = Cardinality(linkedPlaces)
       /\ \A j \in 1..Len(edges) :
            LET e == value.edges.items[linkedPlace(j - 1)]
            IN /\ \E i \in 1..Len(nodes) :
                    fileKey(i) = String(e.source) /\ edges[j].source = nodes[i].id
               /\ \E i \in 1..Len(nodes) :
                    fileKey(i) = String(e.target) /\ edges[j].target = nodes[i].id

C22_Witness ==
  /\ Imported
  /\ Len(value.nodes.items) = 3 /\ Len(value.edges.items) = 2
  /\ value.nodes.items[1].id = Num(1)
  /\ value.nodes.items[2].id = JsUndefined
  /\ value.nodes.items[3].id = Str(<<"1">>)
  /\ \A j \in 1..2 : value.edges.items[j].type = "object"
  /\ value.edges.items[1].target = Str(<<"zz">>)
  /\ value.edges.items[2].source = Num(1)
  /\ value.edges.items[2].target = Str(<<"node-", "1">>)
  /\ Len(returned.result.edges) = 1
  /\ returned.result.edges[1].source = returned.result.nodes[3].id
  /\ returned.result.edges[1].target = returned.result.nodes[2].id

(***************************************************************************)
(* The page (page.tsx).  FlowCanvas keeps the graph on the canvas in       *)
(* nodes and edges, the undo stack in history, and the projects with the   *)
(* id of the active one.  A handler runs to its end, React renders, and    *)
(* the project update effect (221-229) copies nodes, edges and             *)
(* layoutDirection into the active project; handleLayoutChange waits for   *)
(* its fetch in between.  A node is [id, position, data], an edge          *)
(* [source, target], a project [id, nodes, edges, layoutDirection,         *)
(* chatSessions, activeChatSessionId], a chat session [id, messages].      *)
(***************************************************************************)
MaxProjects == 2
MaxCreated == 1
MaxEdits == 2
MaxLayouts == 1
MaxUndoCreated == 2
MaxUndoEdits == 12

\* null where an id is expected
NullId == [gen |-> 0]

\* generateId(): the k-th id, different from every id given before
generateId(k) == [gen |-> k]

\* `node-${Date.now()}` of the k-th node the page creates
Stamps == <<"node-1", "node-2", "node-3">>
nodeStamp(k) == Stamps[k]

\* { ...a, ...b }
spread(a, b) ==
  [k \in DOMAIN a \cup DOMAIN b |-> IF k \in DOMAIN b THEN b[k] ELSE a[k]]

\* the first message of the chat session of a new project
welcome == [id |-> "1", role |-> "assistant", content |-> <<"Hi!">>]

createNewProject(k, nodes, edges, layoutDirection) ==
  LET initialChatSession == [id |-> generateId(k + 1), messages |-> <<welcome>>]
  IN [id |-> generateId(k + 2),
      nodes |-> nodes,
      edges |-> edges,
      layoutDirection |-> layoutDirection,
      chatSessions |-> <<initialChatSession>>,
      activeChatSessionId |-> initialChatSession.id]

\* projects.find(p => p.id === id): its place, 0 when there is none
findProject(projects, id) ==
  IF \E i \in 1..Len(projects) : projects[i].id = id
  THEN CHOOSE i \in 1..Len(projects) :
         /\ projects[i].id = id
         /\ \A j \in 1..(i - 1) : projects[j].id # id
  ELSE 0

\* the project update effect, after the render that follows a handler
projectUpdateSkipped(p) == p

projectUpdate(p) ==
  IF p.activeProjectId = NullId THEN p
  ELSE [p EXCEPT !.projects =
          Tup([i \in 1..Len(@) |->
                 IF @[i].id = p.activeProjectId
                 THEN [@[i] EXCEPT !.nodes = p.nodes, !.edges = p.edges,
                                   !.layoutDirection = p.layoutDirection]
                 ELSE @[i]])]

saveToHistoryNine(p) ==
  [p EXCEPT !.history = sliceLast(@, 9) \o <<[nodes |-> p.nodes, edges |-> p.edges]>>]

\* setHistory(prev => [...prev.slice(-10), { nodes: [...nodes], edges: [...edges] }])
saveToHistory(p) ==
  [p EXCEPT !.history = sliceLast(@, 10) \o <<[nodes |-> p.nodes, edges |-> p.edges]>>]

handleUndo(p) ==
  IF Len(p.history) > 0
  THEN LET lastState == p.history[Len(p.history)]
       IN [p EXCEPT !.nodes = lastState.nodes,
                    !.edges = lastState.edges,
                    !.history = SubSeq(@, 1, Len(@) - 1)]
  ELSE p

\* addEdge of React Flow: an edge that is already there is not added again
addEdge(edge, eds) ==
  IF \E i \in 1..Len(eds) : eds[i].source = edge.source /\ eds[i].target = edge.target
  THEN eds
  ELSE eds \o <<edge>>

onConnect(p, params) ==
  LET q == saveToHistory(p)
  IN [q EXCEPT !.edges = addEdge([source |-> params.source, target |-> params.target], @)]

\* nodeData.category || 'default'
categoryOf(nodeData) ==
  IF "category" \in DOMAIN nodeData /\ nodeData.category # "" THEN nodeData.category
  ELSE "default"

handleAddNode(p, nodeData, k, at) ==
  LET q == saveToHistory(p)
      newNode == [id |-> nodeStamp(k),
                  position |-> at,
                  data |-> spread(nodeData, [category |-> categoryOf(nodeData),
                                             complexity |-> "low"])]
  IN [q EXCEPT !.nodes = @ \o <<newNode>>]

handleDeleteNodeBySource(p, nodeId) ==
  LET q == saveToHistory(p)
  IN [q EXCEPT !.nodes = SelectSeq(@, LAMBDA n : n.id # nodeId),
               !.edges = SelectSeq(@, LAMBDA e : e.source # nodeId),
               !.selectedNode = JsNull]

handleDeleteNode(p, nodeId) ==
  LET q == saveToHistory(p)
  IN [q EXCEPT !.nodes = SelectSeq(@, LAMBDA n : n.id # nodeId),
               !.edges = SelectSeq(@, LAMBDA e : e.source # nodeId /\ e.target # nodeId),
               !.selectedNode = JsNull]

handleUpdateNode(p, nodeId, data) ==
  LET q == saveToHistory(p)
  IN [q EXCEPT !.nodes =
        Tup([i \in 1..Len(@) |->
               IF @[i].id = nodeId THEN [@[i] EXCEPT !.data = spread(@, data)]
               ELSE @[i]])]

handleDuplicateSelected(p, k) ==
  IF p.selectedNode = JsNull THEN p
  ELSE LET q == saveToHistory(p)
           newNode == [p.selectedNode EXCEPT
                         !.id = nodeStamp(k),
                         !.position = [x |-> @.x + 50, y |-> @.y + 50]]
       IN [q EXCEPT !.nodes = @ \o <<newNode>>]

handleCreateEmptyProject(p, k) ==
  LET newProject == createNewProject(k, <<>>, <<>>, p.layoutDirection)
  IN [p EXCEPT !.projects = @ \o <<newProject>>,
               !.activeProjectId = newProject.id,
               !.nodes = <<>>,
               !.edges = <<>>,
               !.selectedNode = JsNull]

switchToProject(p, projectId) ==
  LET i == findProject(p.projects, projectId)
  IN IF i = 0 THEN p
     ELSE [p EXCEPT !.activeProjectId = projectId,
                    !.nodes = p.projects[i].nodes,
                    !.edges = p.projects[i].edges,
                    !.layoutDirection = p.projects[i].layoutDirection,
                    !.selectedNode = JsNull]

deleteProject(p, projectId) ==
  LET filtered == SelectSeq(p.projects, LAMBDA x : x.id # projectId)
  IN IF projectId # p.activeProjectId THEN [p EXCEPT !.projects = filtered]
     ELSE IF Len(filtered) > 0
     THEN [p EXCEPT !.projects = filtered,
                    !.activeProjectId = filtered[1].id,
                    !.nodes = filtered[1].nodes,
                    !.edges = filtered[1].edges,
                    !.layoutDirection = filtered[1].layoutDirection]
     ELSE [p EXCEPT !.projects = filtered,
                    !.activeProjectId = NullId,
                    !.nodes = <<>>,
                    !.edges = <<>>,
                    !.layoutDirection = "TB"]

\* the nodes of the answer of PUT /api/repo: the nodes of the request, each
\* at the position the layout gave it (here: side by side, in the order of
\* the request)
layoutedNodes(nodes, direction) ==
  Tup([i \in 1..Len(nodes) |->
         [nodes[i] EXCEPT !.position =
            IF direction = "LR" THEN [x |-> 50, y |-> 50 + 200 * (i - 1)]
            ELSE [x |-> 50 + 380 * (i - 1), y |-> 50]]])

\* the graph of a project that was saved in localStorage
SavedNodes ==
  <<[id |-> "a", position |-> [x |-> 0, y |-> 0],
     data |-> [label |-> "A", category |-> "api", complexity |-> "low"]],
    [id |-> "b", position |-> [x |-> 0, y |-> 150],
     data |-> [label |-> "B", category |-> "api", complexity |-> "low"]],
    [id |-> "c", position |-> [x |-> 0, y |-> 300],
     data |-> [label |-> "C", category |-> "api", complexity |-> "low"]]>>

SavedEdges == <<[source |-> "a", target |-> "b"], [source |-> "b", target |-> "c"]>>

\* what the dialogs of the page give handleAddNode and handleUpdateNode
NodeDatas == {[label |-> "New", category |-> ""]}
UpdateDatas == {[label |-> "Renamed"]}

\* Math.random() * 400 + 100
RandomPositions == {[x |-> 100, y |-> 100]}

\* the page before any project exists
freshPage ==
  [nodes |-> <<>>, edges |-> <<>>, selectedNode |-> JsNull, history |-> <<>>,
   projects |-> <<>>, activeProjectId |-> NullId, layoutDirection |-> "TB"]

\* the page after the load effect (154-200) found a saved project
restoredPage ==
  LET project == createNewProject(0, SavedNodes, SavedEdges, "TB")
  IN [nodes |-> project.nodes, edges |-> project.edges, selectedNode |-> JsNull,
      history |-> <<>>, projects |-> <<project>>, activeProjectId |-> project.id,
      layoutDirection |-> "TB"]

MaxGenerated == 4

serverVars == <<pc, req, call, dagreGraph, resp, fed, log,
                env, value, returned, chatPc, chatReq, availability, chatResp,
                streaming, forwarded, controller>>

\* the counters of a page that has generated k ids
countFrom(k, maxCreated, maxEdits) ==
  [generated |-> k, created |-> 0, edits |-> 0, layouts |-> 0, sends |-> 0,
   maxCreated |-> maxCreated, maxEdits |-> maxEdits]

InitPage ==
  /\ repoIdle
  /\ llmIdle
  /\ \/ page = freshPage /\ count = countFrom(0, MaxCreated, MaxEdits)
     \/ page = restoredPage /\ count = countFrom(2, MaxCreated, MaxEdits)
  /\ recordedIn = <<>>
  /\ layoutFetch = NoFetch
  /\ chatSend = NoSend
  /\ event = NoEvent

\* what every handler that calls saveToHistory does to the counters
recorded ==
  /\ count.edits < count.maxEdits
  /\ recordedIn' = sliceLast(recordedIn, 10) \o <<page.activeProjectId>>

HandleCreateEmptyProject ==
  /\ page # NoPage
  /\ Len(page.projects) < MaxProjects
  /\ count.generated + 2 <= MaxGenerated
  /\ page' = projectUpdate(handleCreateEmptyProject(page, count.generated))
  /\ count' = [count EXCEPT !.generated = @ + 2]
  /\ event' = [op |-> "handleCreateEmptyProject"]
  /\ UNCHANGED <<recordedIn, layoutFetch, chatSend>>
  /\ UNCHANGED serverVars

SwitchToProject ==
  /\ page # NoPage
  /\ \E i \in 1..Len(page.projects) :
       /\ page' = projectUpdate(switchToProject(page, page.projects[i].id))
       /\ event' = [op |-> "switchToProject", projectId |-> page.projects[i].id]
  /\ UNCHANGED <<count, recordedIn, layoutFetch, chatSend>>
  /\ UNCHANGED serverVars

DeleteProject ==
  /\ page # NoPage
  /\ \E i \in 1..Len(page.projects) :
       /\ page' = projectUpdate(deleteProject(page, page.projects[i].id))
       /\ event' = [op |-> "deleteProject", projectId |-> page.projects[i].id]
  /\ UNCHANGED <<count, recordedIn, layoutFetch, chatSend>>
  /\ UNCHANGED serverVars

OnNodeClick ==
  /\ page # NoPage
  /\ \E i \in 1..Len(page.nodes) :
       page' = projectUpdate([page EXCEPT !.selectedNode = page.nodes[i]])
  /\ event' = [op |-> "onNodeClick"]
  /\ UNCHANGED <<count, recordedIn, layoutFetch, chatSend>>
  /\ UNCHANGED serverVars

OnConnect ==
  /\ page # NoPage
  /\ recorded
  /\ Len(page.nodes) > 0
  /\ LET params == [source |-> page.nodes[Len(page.nodes)].id, target |-> page.nodes[1].id]
       IN /\ page' = projectUpdate(onConnect(page, params))
          /\ event' = [op |-> "onConnect", params |-> params]
  /\ count' = [count EXCEPT !.edits = @ + 1]
  /\ UNCHANGED <<layoutFetch, chatSend>>
  /\ UNCHANGED serverVars

HandleAddNode ==
  /\ page # NoPage
  /\ recorded
  /\ count.created < count.maxCreated
  /\ \E nodeData \in NodeDatas, at \in RandomPositions :
       page' = projectUpdate(handleAddNode(page, nodeData, count.created + 1, at))
  /\ event' = [op |-> "handleAddNode"]
  /\ count' = [count EXCEPT !.edits = @ + 1, !.created = @ + 1]
  /\ UNCHANGED <<layoutFetch, chatSend>>
  /\ UNCHANGED serverVars

\* the Delete key gives the id of selectedNode, the panel the id of a node
HandleDeleteNode ==
  /\ page # NoPage
  /\ recorded
  /\ \E nodeId \in {page.nodes[i].id : i \in 1..Len(page.nodes)}
                     \cup (IF page.selectedNode = JsNull THEN {}
                           ELSE {page.selectedNode.id}) :
       /\ page' = projectUpdate(handleDeleteNode(page, nodeId))
       /\ event' = [op |-> "handleDeleteNode", nodeId |-> nodeId]
  /\ count' = [count EXCEPT !.edits = @ + 1]
  /\ UNCHANGED <<layoutFetch, chatSend>>
  /\ UNCHANGED serverVars

HandleUpdateNode ==
  /\ page # NoPage
  /\ recorded
  /\ Len(page.nodes) > 0
  /\ \E data \in UpdateDatas :
       page' = projectUpdate(handleUpdateNode(page, page.nodes[1].id, data))
  /\ event' = [op |-> "handleUpdateNode"]
  /\ count' = [count EXCEPT !.edits = @ + 1]
  /\ UNCHANGED <<layoutFetch, chatSend>>
  /\ UNCHANGED serverVars

HandleDuplicateSelected ==
  /\ page # NoPage
  /\ page.selectedNode # JsNull
  /\ recorded
  /\ count.created < count.maxCreated
  /\ page' = projectUpdate(handleDuplicateSelected(page, count.created + 1))
  /\ event' = [op |-> "handleDuplicateSelected"]
  /\ count' = [count EXCEPT !.edits = @ + 1, !.created = @ + 1]
  /\ UNCHANGED <<layoutFetch, chatSend>>
  /\ UNCHANGED serverVars

HandleUndo ==
  /\ page # NoPage
  /\ page' = projectUpdate(handleUndo(page))
  /\ recordedIn' = IF Len(page.history) > 0
                   THEN SubSeq(recordedIn, 1, Len(recordedIn) - 1)
                   ELSE recordedIn
  /\ event' = [op |-> "handleUndo", restored |-> Len(page.history) > 0]
  /\ UNCHANGED <<count, layoutFetch, chatSend>>
  /\ UNCHANGED serverVars

\* handleLayoutChange up to its fetch
HandleLayoutChange ==
  /\ page # NoPage
  /\ layoutFetch = NoFetch
  /\ count.layouts < MaxLayouts
  /\ Len(page.nodes) # 0
  /\ \E direction \in {"TB", "LR"} :
       /\ page' = projectUpdate([page EXCEPT !.layoutDirection = direction])
       /\ layoutFetch' = [nodes |-> page.nodes, edges |-> page.edges,
                          layout |-> direction, project |-> page.activeProjectId]
  /\ event' = [op |-> "handleLayoutChange"]
  /\ count' = [count EXCEPT !.layouts = @ + 1]
  /\ UNCHANGED <<recordedIn, chatSend>>
  /\ UNCHANGED serverVars

\* handleLayoutChange after its fetch, when the answer is ok
LayoutArrives ==
  /\ layoutFetch # NoFetch
  /\ page' = projectUpdate([page EXCEPT
               !.nodes = layoutedNodes(layoutFetch.nodes, layoutFetch.layout),
               !.edges = layoutFetch.edges])
  /\ layoutFetch' = NoFetch
  /\ event' = [op |-> "layoutArrives", project |-> layoutFetch.project]
  /\ UNCHANGED <<count, recordedIn, chatSend>>
  /\ UNCHANGED serverVars

\* handleLayoutChange after its fetch, when the answer is not ok or the
\* fetch failed
LayoutFails ==
  /\ layoutFetch # NoFetch
  /\ layoutFetch' = NoFetch
  /\ event' = [op |-> "layoutFails", project |-> layoutFetch.project]
  /\ UNCHANGED <<page, count, recordedIn, chatSend>>
  /\ UNCHANGED serverVars

NextPage ==
  \/ HandleCreateEmptyProject
  \/ SwitchToProject
  \/ DeleteProject
  \/ OnNodeClick
  \/ OnConnect
  \/ HandleAddNode
  \/ HandleDeleteNode
  \/ HandleUpdateNode
  \/ HandleDuplicateSelected
  \/ HandleUndo
  \/ HandleLayoutChange
  \/ LayoutArrives
  \/ LayoutFails

SpecPage == InitPage /\ [][NextPage]_vars

\* the step is a run of handleDeleteNode(nodeId)
Deletes(nodeId) ==
  /\ event'.op = "handleDeleteNode"
  /\ event'.nodeId = nodeId

touches(e, nodeId) == e.source = nodeId \/ e.target = nodeId

\* C23: after handleDeleteNode(id) no node has the id and no edge has it as
\* its source or its target, the other nodes and edges are the ones there
\* were, unchanged and in their order, and nothing is selected
C23_DeleteRemovesNodeAndEdges ==
  [][\A nodeId \in {"a", "b", "c"} \cup {Stamps[k] : k \in 1..MaxUndoCreated} :
       Deletes(nodeId) =>
         /\ \A i \in 1..Len(page'.nodes) : page'.nodes[i].id # nodeId
         /\ \A i \in 1..Len(page'.edges) : ~touches(page'.edges[i], nodeId)
         /\ page'.nodes = SelectSeq(page.nodes, LAMBDA n : n.id # nodeId)
         /\ page'.edges = SelectSeq(page.edges, LAMBDA e : ~touches(e, nodeId))
         /\ page'.selectedNode = JsNull]_vars

\* a node with an edge was deleted, and a node and an edge are left
C23_Witness ==
  /\ event.op = "handleDeleteNode"
  /\ Len(page.history) > 0
  /\ LET before == page.history[Len(page.history)]
     IN /\ \E i \in 1..Len(before.nodes) : before.nodes[i].id = event.nodeId
        /\ \E i \in 1..Len(before.edges) : touches(before.edges[i], event.nodeId)
        /\ Len(page.nodes) = Len(before.nodes) - 1
        /\ Len(page.edges) = Len(before.edges) - 1
  /\ Len(page.edges) > 0
  /\ page.selectedNode = JsNull

\* the nodes and edges the projects hold for the project id, <<>> when
\* there is no such project
stored(p, id) ==
  LET i == findProject(p.projects, id)
  IN IF i = 0 THEN <<>> ELSE <<[nodes |-> p.projects[i].nodes, edges |-> p.projects[i].edges]>>

\* C28: when the answer of the PUT of handleLayoutChange arrives while a
\* project other than the one that was active at the request is active,
\* the nodes and edges of the active project stay as they are
C28_LayoutOnlyForRequester ==
  [][(/\ event'.op = "layoutArrives"
      /\ page.activeProjectId # NullId
      /\ layoutFetch.project # page.activeProjectId) =>
       /\ stored(page', page.activeProjectId) = stored(page, page.activeProjectId)
       /\ page'.nodes = page.nodes
       /\ page'.edges = page.edges]_vars

\* C29: when handleUndo takes an entry that was recorded while another
\* project was active, the nodes and edges of the active project stay as
\* they are
C29_UndoOnlyInItsProject ==
  [][(/\ event'.op = "handleUndo"
      /\ event'.restored
      /\ page.activeProjectId # NullId
      /\ recordedIn[Len(recordedIn)] # NullId
      /\ recordedIn[Len(recordedIn)] # page.activeProjectId) =>
       /\ stored(page', page.activeProjectId) = stored(page, page.activeProjectId)
       /\ page'.nodes = page.nodes
       /\ page'.edges = page.edges]_vars

(***************************************************************************)
(* SpecUndo: on a page without a saved project, more edits are recorded    *)
(* than history keeps.                                                     *)
(***************************************************************************)
InitUndo ==
  /\ repoIdle
  /\ llmIdle
  /\ page = freshPage
  /\ count = countFrom(0, MaxUndoCreated, MaxUndoEdits)
  /\ recordedIn = <<>>
  /\ layoutFetch = NoFetch
  /\ chatSend = NoSend
  /\ event = NoEvent

NextUndo ==
  \/ OnNodeClick
  \/ OnConnect
  \/ HandleAddNode
  \/ HandleDeleteNode
  \/ HandleUpdateNode
  \/ HandleDuplicateSelected
  \/ HandleUndo

SpecUndo == InitUndo /\ [][NextUndo]_vars

\* the handlers that call saveToHistory
RecordedEdits ==
  {"onConnect", "handleAddNode", "handleDeleteNode", "handleUpdateNode",
   "handleDuplicateSelected"}

\* the last n entries of list are the entries of kept, in their order
endsWith(list, kept) ==
  /\ Len(kept) <= Len(list)
  /\ \A i \in 1..Len(kept) : kept[i] = list[Len(list) - Len(kept) + i]

\* C24: an edit that records history puts the nodes and edges it found on
\* top of history, over the entries there were, of which the last 10 are
\* kept (11 entries at most); handleUndo on a history that is not empty
\* puts the nodes and edges of the top entry back and removes that entry,
\* so that k undos in a row go back through the last k recorded edits
C24_UndoRevertsEdits ==
  [][/\ event'.op \in RecordedEdits =>
          /\ Len(page'.history) = Min2(Len(page.history) + 1, 11)
          /\ page'.history[Len(page'.history)] = [nodes |-> page.nodes, edges |-> page.edges]
          /\ endsWith(page.history, SubSeq(page'.history, 1, Len(page'.history) - 1))
     /\ (event'.op = "handleUndo" /\ Len(page.history) > 0) =>
          /\ page'.nodes = page.history[Len(page.history)].nodes
          /\ page'.edges = page.history[Len(page.history)].edges
          /\ page'.history = SubSeq(page.history, 1, Len(page.history) - 1)]_vars

\* an undo took the top of a history of 11 entries, after more than 11 edits
\* were recorded, and changed the graph
C24_Witness ==
  /\ event.op = "handleUndo"
  /\ event.restored
  /\ Len(page.history) = 10
  /\ count.edits = MaxUndoEdits
  /\ page.history[10] # [nodes |-> page.nodes, edges |-> page.edges]

(***************************************************************************)
(* The model settings (github.ts 69-232, settings/page.tsx 59-94).         *)
(* enabledModels is a function from the provider ids it has as keys to     *)
(* lists of model names, selectedProvider and selectedModel are a name or  *)
(* Null, maxOutputTokens is a number and temperature is counted in tenths. *)
(* The status of the providers is JsNull or [providers], a provider being  *)
(* [id, models, available].                                                *)
(***************************************************************************)
MaxApplications == 3

clampMaxTokens(v) == Min2(8192, Max2(64, v))

clampTemperature(v) == Min2(10, Max2(0, v))

\* base.enabledModels[id] || []
enabledOf(settings, id) ==
  IF id \in DOMAIN settings.enabledModels THEN settings.enabledModels[id] ELSE <<>>

\* what the loop of sanitizeModelSettings assigns to enabledModels[provider.id]:
\* <<list>>, or <<>> when it assigns nothing
assigned(base, provider) ==
  LET existingEnabled == enabledOf(base, provider.id)
      allowed == SelectSeq(existingEnabled, LAMBDA model : includes(provider.models, model))
  IN IF provider.available /\ Len(allowed) > 0 THEN <<allowed>>
     ELSE IF /\ provider.available
             /\ Len(provider.models) > 0
             /\ provider.id \notin DOMAIN base.enabledModels
     THEN <<<<provider.models[1]>>>>
     ELSE <<>>

\* providers.find(...): the first provider of the list that passes, or <<>>
firstWhere(providers, Test(_)) ==
  LET passing == SelectSeq(providers, Test)
  IN IF Len(passing) > 0 THEN <<passing[1]>> ELSE <<>>

sanitizeModelSettings(settings, providerResponse) ==
  LET base == [settings EXCEPT !.maxOutputTokens = clampMaxTokens(@),
                               !.temperature = clampTemperature(@)]
  IN IF providerResponse = JsNull \/ Len(providerResponse.providers) = 0 THEN base
     ELSE
       LET providers == providerResponse.providers
           availableProviders == SelectSeq(providers, LAMBDA provider : provider.available)
           keys == {providers[i].id : i \in {j \in 1..Len(providers) :
                                               assigned(base, providers[j]) # <<>>}}
           enabledModels ==
             [id \in keys |->
                LET last == CHOOSE i \in 1..Len(providers) :
                              /\ providers[i].id = id
                              /\ assigned(base, providers[i]) # <<>>
                              /\ \A j \in (i + 1)..Len(providers) :
                                   ~(providers[j].id = id /\ assigned(base, providers[j]) # <<>>)
                IN assigned(base, providers[last])[1]]
           enabledFor(id) == IF id \in keys THEN enabledModels[id] ELSE <<>>
           providerForSelection ==
             IF base.selectedProvider = Null THEN <<>>
             ELSE firstWhere(availableProviders,
                             LAMBDA provider : provider.id = base.selectedProvider)
           enabledForSelected ==
             IF providerForSelection # <<>> THEN enabledFor(providerForSelection[1].id)
             ELSE <<>>
           fallbackProvider ==
             firstWhere(availableProviders, LAMBDA provider : Len(enabledFor(provider.id)) > 0)
       IN IF providerForSelection # <<>> /\ Len(enabledForSelected) > 0
          THEN [base EXCEPT !.enabledModels = enabledModels,
                            !.selectedProvider = providerForSelection[1].id,
                            !.selectedModel =
                              IF includes(enabledForSelected, base.selectedModel)
                              THEN base.selectedModel
                              ELSE enabledForSelected[1]]
          ELSE [base EXCEPT !.enabledModels = enabledModels,
                            !.selectedProvider =
                              IF fallbackProvider # <<>> THEN fallbackProvider[1].id
                              ELSE Null,
                            !.selectedModel =
                              IF fallbackProvider # <<>>
                              THEN enabledFor(fallbackProvider[1].id)[1]
                              ELSE Null]

\* the settings and the provider status a settings page can hold
SettingProviders == {"openai", "deepseek"}
EnabledLists == {<<>>, <<"m1">>, <<"m1", "m2">>, <<"old">>}

EnabledModels ==
  UNION {[keys -> EnabledLists] : keys \in SUBSET SettingProviders}

ModelSettings ==
  [enabledModels : EnabledModels,
   selectedProvider : {Null, "openai"},
   selectedModel : {Null, "m2"},
   maxOutputTokens : {2000, 9000},
   temperature : {7}]

statusOf(openai, deepseek) ==
  [providers |->
     <<[id |-> "openai", models |-> <<"m1", "m2">>, available |-> openai],
       [id |-> "deepseek", models |-> <<"m1">>, available |-> deepseek]>>]

ProviderResponses ==
  {JsNull} \cup {statusOf(openai, deepseek) : openai, deepseek \in BOOLEAN}

\* SpecSettings: sanitizeModelSettings is applied to some settings, and then
\* to what it returned, with the same provider status, as applySettings and
\* the load effect of the settings page do
InitSettings ==
  /\ repoIdle
  /\ pageIdle
  /\ chatIdle
  /\ env = NoEnv
  /\ value \in [settings : ModelSettings, providerStatus : ProviderResponses]
  /\ returned = NotCalled

SanitizeModelSettings ==
  /\ returned = NotCalled
  /\ returned' = [fn |-> "sanitizeModelSettings",
                  result |-> sanitizeModelSettings(value.settings, value.providerStatus),
                  times |-> 1]
  /\ UNCHANGED <<pc, req, call, dagreGraph, resp, fed, log>>
  /\ UNCHANGED <<env, value, chatPc, chatReq, availability, chatResp, streaming, forwarded>>
  /\ UNCHANGED pageVars
  /\ UNCHANGED controller

ApplySettings ==
  /\ returned.fn = "sanitizeModelSettings"
  /\ returned.times < MaxApplications
  /\ returned' = [fn |-> "sanitizeModelSettings",
                  result |-> sanitizeModelSettings(returned.result, value.providerStatus),
                  times |-> returned.times + 1]
  /\ UNCHANGED <<pc, req, call, dagreGraph, resp, fed, log>>
  /\ UNCHANGED <<env, value, chatPc, chatReq, availability, chatResp, streaming, forwarded>>
  /\ UNCHANGED pageVars
  /\ UNCHANGED controller

NextSettings ==
  \/ SanitizeModelSettings
  \/ ApplySettings

SpecSettings == InitSettings /\ [][NextSettings]_vars

\* the user has disabled all models of the provider: the settings have the
\* provider as a key, with no model
AllDisabled(settings, id) ==
  /\ id \in DOMAIN settings.enabledModels
  /\ settings.enabledModels[id] = <<>>

\* C25: a provider all of whose models the user has disabled has no enabled
\* model after sanitizeModelSettings, and none after sanitizeModelSettings
\* was applied again to what it returned, with the same provider status
C25_DisabledStaysDisabled ==
  returned.fn = "sanitizeModelSettings" =>
    \A id \in SettingProviders :
      AllDisabled(value.settings, id) => enabledOf(returned.result, id) = <<>>

\* the first application leaves such a provider disabled
FirstApplicationKeeps ==
  (returned.fn = "sanitizeModelSettings" /\ returned.times = 1) =>
    \A id \in SettingProviders :
      AllDisabled(value.settings, id) => enabledOf(returned.result, id) = <<>>

(***************************************************************************)
(* The chat sessions of the active project (page.tsx 460-562) and          *)
(* handleSend of the chat panel (EnhancedChatbot.tsx 216-399).  handleSend *)
(* keeps, for all its run, the messages and the onUpdateMessages of the    *)
(* render it was called in; it waits for its fetch and for every read of   *)
(* the body.  A message is [id, role, content], content a list of pieces.  *)
(***************************************************************************)
MaxSessionIds == 5
MaxSends == 1
MaxChunks == 2

\* Date.now().toString() of the k-th message the panel makes
MessageStamps == <<"t1", "t2", "t3">>
messageStamp(k) == MessageStamps[k]

\* the first message of a chat session the page makes
greeting == [id |-> "1", role |-> "assistant", content |-> <<"New conversation started!">>]
cleared == [id |-> "1", role |-> "assistant", content |-> <<"Chat cleared!">>]

\* setProjects(prev => prev.map(p => p.id !== activeProjectId ? p : Change(p)))
mapActiveProject(p, activeProjectId, Change(_)) ==
  [p EXCEPT !.projects =
     Tup([i \in 1..Len(@) |-> IF @[i].id # activeProjectId THEN @[i] ELSE Change(@[i])])]

\* the activeProjectId and the activeProject?.activeChatSessionId of a render
rendered(p) ==
  LET i == findProject(p.projects, p.activeProjectId)
  IN [activeProjectId |-> p.activeProjectId,
      activeChatSessionId |-> IF i = 0 THEN NullId ELSE p.projects[i].activeChatSessionId]

\* the sessions of a project with the messages of the session id replaced
withMessages(chatSessions, id, messages) ==
  Tup([i \in 1..Len(chatSessions) |->
         IF chatSessions[i].id = id THEN [chatSessions[i] EXCEPT !.messages = messages]
         ELSE chatSessions[i]])

\* an update that writes to the session of the render it was made in
updateChatMessagesOfSender(p, render, messages) ==
  IF render.activeProjectId = NullId \/ render.activeChatSessionId = NullId THEN p
  ELSE mapActiveProject(p, render.activeProjectId,
         LAMBDA project :
           [project EXCEPT !.chatSessions =
              withMessages(@, render.activeChatSessionId, messages)])

\* updateChatMessages of the render `render`, called on the state p
updateChatMessages(p, render, messages) ==
  IF render.activeProjectId = NullId \/ render.activeChatSessionId = NullId THEN p
  ELSE mapActiveProject(p, render.activeProjectId,
         LAMBDA project :
           [project EXCEPT !.chatSessions =
              withMessages(@, project.activeChatSessionId, messages)])

createNewChatSession(p, k) ==
  IF p.activeProjectId = NullId THEN p
  ELSE LET newSession == [id |-> generateId(k + 1), messages |-> <<greeting>>]
       IN mapActiveProject(p, p.activeProjectId,
            LAMBDA project :
              [project EXCEPT !.chatSessions = @ \o <<newSession>>,
                              !.activeChatSessionId = newSession.id])

switchChatSession(p, sessionId) ==
  IF p.activeProjectId = NullId THEN p
  ELSE mapActiveProject(p, p.activeProjectId,
         LAMBDA project : [project EXCEPT !.activeChatSessionId = sessionId])

withoutSessionKeepingActive(project, sessionId, k) ==
  [project EXCEPT !.chatSessions = SelectSeq(@, LAMBDA s : s.id # sessionId)]

\* what deleteChatSession makes of a project
withoutSession(project, sessionId, k) ==
  LET filteredSessions == SelectSeq(project.chatSessions, LAMBDA s : s.id # sessionId)
      newActiveSessionId ==
        IF sessionId = project.activeChatSessionId /\ Len(filteredSessions) > 0
        THEN filteredSessions[1].id
        ELSE project.activeChatSessionId
  IN IF Len(filteredSessions) = 0
     THEN LET newSession == [id |-> generateId(k + 1), messages |-> <<cleared>>]
          IN [project EXCEPT !.chatSessions = <<newSession>>,
                             !.activeChatSessionId = newSession.id]
     ELSE [project EXCEPT !.chatSessions = filteredSessions,
                          !.activeChatSessionId = newActiveSessionId]

deleteChatSession(p, sessionId, k) ==
  IF p.activeProjectId = NullId THEN p
  ELSE mapActiveProject(p, p.activeProjectId,
         LAMBDA project : withoutSession(project, sessionId, k))

\* the sessions of the active project, <<>> when there is none
activeSessions(p) ==
  LET i == findProject(p.projects, p.activeProjectId)
  IN IF i = 0 THEN <<>> ELSE p.projects[i].chatSessions

\* the messages of the session id of a list of sessions
messagesOf(chatSessions, id) ==
  LET found == SelectSeq(chatSessions, LAMBDA s : s.id = id)
  IN IF Len(found) > 0 THEN found[1].messages ELSE <<>>

\* messagesWithAssistant.map(m => m.id === assistantMsgId ? { ...m, content } : m)
withContent(messages, assistantMsgId, content) ==
  Tup([i \in 1..Len(messages) |->
         IF messages[i].id = assistantMsgId THEN [messages[i] EXCEPT !.content = content]
         ELSE messages[i]])

InitSessions ==
  /\ repoIdle
  /\ llmIdle
  /\ page = restoredPage
  /\ count = [countFrom(2, 0, 0) EXCEPT !.layouts = MaxLayouts]
  /\ recordedIn = <<>>
  /\ layoutFetch = NoFetch
  /\ chatSend = NoSend
  /\ event = NoEvent

CreateNewChatSession ==
  /\ page # NoPage
  /\ count.generated < MaxSessionIds
  /\ page' = projectUpdate(createNewChatSession(page, count.generated))
  /\ count' = [count EXCEPT !.generated = @ + 1]
  /\ event' = [op |-> "createNewChatSession"]
  /\ UNCHANGED <<recordedIn, layoutFetch, chatSend>>
  /\ UNCHANGED serverVars

SwitchChatSession ==
  /\ page # NoPage
  /\ \E i \in 1..Len(activeSessions(page)) :
       page' = projectUpdate(switchChatSession(page, activeSessions(page)[i].id))
  /\ event' = [op |-> "switchChatSession"]
  /\ UNCHANGED <<count, recordedIn, layoutFetch, chatSend>>
  /\ UNCHANGED serverVars

DeleteChatSession ==
  /\ page # NoPage
  /\ count.generated < MaxSessionIds
  /\ \E i \in 1..Len(activeSessions(page)) :
       page' = projectUpdate(deleteChatSession(page, activeSessions(page)[i].id,
                                               count.generated))
  /\ count' = [count EXCEPT !.generated =
                 IF Len(activeSessions(page)) = 1 THEN @ + 1 ELSE @]
  /\ event' = [op |-> "deleteChatSession"]
  /\ UNCHANGED <<recordedIn, layoutFetch, chatSend>>
  /\ UNCHANGED serverVars

\* handleSend up to its fetch
HandleSend ==
  /\ page # NoPage
  /\ chatSend = NoSend
  /\ count.sends < MaxSends
  /\ rendered(page).activeChatSessionId # NullId
  /\ LET render == rendered(page)
         messages == messagesOf(activeSessions(page), render.activeChatSessionId)
         userMsg == [id |-> messageStamp(1), role |-> "user", content |-> <<"question">>]
         updatedMessages == messages \o <<userMsg>>
     IN /\ page' = projectUpdate(updateChatMessages(page, render, updatedMessages))
        /\ chatSend' = [render |-> render, updatedMessages |-> updatedMessages,
                        reading |-> FALSE]
  /\ count' = [count EXCEPT !.sends = @ + 1]
  /\ event' = [op |-> "handleSend"]
  /\ UNCHANGED <<recordedIn, layoutFetch>>
  /\ UNCHANGED serverVars

\* the fetch of handleSend is answered with a body to read
SendAnswered ==
  /\ chatSend # NoSend
  /\ ~chatSend.reading
  /\ LET assistantMsg == [id |-> messageStamp(2), role |-> "assistant", content |-> <<>>]
         messagesWithAssistant == chatSend.updatedMessages \o <<assistantMsg>>
     IN /\ page' = projectUpdate(updateChatMessages(page, chatSend.render,
                                                    messagesWithAssistant))
        /\ chatSend' = [render |-> chatSend.render,
                        updatedMessages |-> chatSend.updatedMessages,
                        reading |-> TRUE,
                        assistantMsgId |-> assistantMsg.id,
                        messagesWithAssistant |-> messagesWithAssistant,
                        streamedContent |-> <<>>]
  /\ event' = [op |-> "sendAnswered"]
  /\ UNCHANGED <<count, recordedIn, layoutFetch>>
  /\ UNCHANGED serverVars

\* reader.read() gives a piece of the reply
StreamRead ==
  /\ chatSend # NoSend
  /\ chatSend.reading
  /\ Len(chatSend.streamedContent) < MaxChunks
  /\ LET streamedContent == chatSend.streamedContent \o <<"piece">>
         updated == withContent(chatSend.messagesWithAssistant, chatSend.assistantMsgId,
                                streamedContent)
     IN /\ page' = projectUpdate(updateChatMessages(page, chatSend.render, updated))
        /\ chatSend' = [chatSend EXCEPT !.streamedContent = streamedContent]
  /\ event' = [op |-> "streamRead"]
  /\ UNCHANGED <<count, recordedIn, layoutFetch>>
  /\ UNCHANGED serverVars

\* reader.read() says the body is done
StreamDone ==
  /\ chatSend # NoSend
  /\ chatSend.reading
  /\ page' = IF chatSend.streamedContent = <<>>
             THEN projectUpdate(updateChatMessages(page, chatSend.render,
                    withContent(chatSend.messagesWithAssistant, chatSend.assistantMsgId,
                                <<"Sorry, I couldn't process that request.">>)))
             ELSE page
  /\ chatSend' = NoSend
  /\ event' = [op |-> "streamDone"]
  /\ UNCHANGED <<count, recordedIn, layoutFetch>>
  /\ UNCHANGED serverVars

\* the fetch or a read fails, or the answer is not ok
SendFails ==
  /\ chatSend # NoSend
  /\ LET errorMsg == [id |-> messageStamp(3), role |-> "assistant", content |-> <<"Error">>]
     IN page' = projectUpdate(updateChatMessages(page, chatSend.render,
                                                 chatSend.updatedMessages \o <<errorMsg>>))
  /\ chatSend' = NoSend
  /\ event' = [op |-> "sendFails"]
  /\ UNCHANGED <<count, recordedIn, layoutFetch>>
  /\ UNCHANGED serverVars

\* handleStop: the fetch or the read is aborted
HandleStop ==
  /\ chatSend # NoSend
  /\ chatSend' = NoSend
  /\ event' = [op |-> "handleStop"]
  /\ UNCHANGED <<page, count, recordedIn, layoutFetch>>
  /\ UNCHANGED serverVars

NextSessions ==
  \/ CreateNewChatSession
  \/ SwitchChatSession
  \/ DeleteChatSession
  \/ HandleSend
  \/ SendAnswered
  \/ StreamRead
  \/ StreamDone
  \/ SendFails
  \/ HandleStop

SpecSessions == InitSessions /\ [][NextSessions]_vars

\* C26: every project has a chat session, and its activeChatSessionId is the
\* id of one of its chat sessions
C26_ActiveSessionListed ==
  page # NoPage =>
    \A i \in 1..Len(page.projects) :
      /\ Len(page.projects[i].chatSessions) >= 1
      /\ \E j \in 1..Len(page.projects[i].chatSessions) :
           page.projects[i].chatSessions[j].id = page.projects[i].activeChatSessionId

\* a chat session was deleted, and the sessions of the project are not the
\* one session the project was made with
C26_Witness ==
  /\ event.op = "deleteChatSession"
  /\ count.generated > 3
  /\ \A j \in 1..Len(activeSessions(page)) : activeSessions(page)[j].id # generateId(1)

\* the steps in which a handleSend that is in flight calls onUpdateMessages
SendUpdates == {"sendAnswered", "streamRead", "streamDone", "sendFails"}

\* the messages of the session id of the project projectId, <<>> when there
\* is no such session
sessionMessages(p, projectId, id) ==
  LET i == findProject(p.projects, projectId)
  IN IF i = 0 THEN <<>> ELSE messagesOf(p.projects[i].chatSessions, id)

\* C27: an update of a handleSend in flight leaves the messages of every
\* chat session other than the one the message was sent in as they were
C27_StreamStaysInItsSession ==
  [][event'.op \in SendUpdates =>
       \A i \in 1..Len(page.projects) :
         \A j \in 1..Len(page.projects[i].chatSessions) :
           LET session == page.projects[i].chatSessions[j]
           IN session.id # chatSend.render.activeChatSessionId =>
                sessionMessages(page', page.projects[i].id, session.id) = session.messages]_vars

\* what the client has been sent when every token the generator gave was
\* forwarded, with the error message after them when the provider failed
sent(c) ==
  Tup([i \in 1..Len(c.yielded) |-> encode(c.yielded[i])])
    \o (IF c.failed THEN <<encode("\n\nError: Streaming failed")>> ELSE <<>>)

\* the stream was closed at most once; while the client has not cancelled
\* it holds the tokens in the order of the generator, then the one error
\* message if the provider failed, and start returns only with the stream
\* closed
StreamInOrder ==
  controller # NoStream =>
    /\ controller.closes <= 1
    /\ (controller.state = "closed") = (controller.closes = 1)
    /\ ~controller.cancelled =>
         /\ controller.queue = sent(controller)
         /\ controller.start # "rejected"
         /\ (controller.start = "returned") = (controller.state = "closed")
         /\ controller.failed => controller.state = "closed"
    /\ controller.cancelled =>
         /\ Len(controller.queue) <= Len(sent(controller))
         /\ \A i \in 1..Len(controller.queue) : controller.queue[i] = sent(controller)[i]

ValidatedAsInitStream ==
  (chatPc = "validated" /\ chatReq \in StreamBodies) =>
    /\ chatReq.message.type = "string"
    /\ chatReq.message.chars # <<>>
    /\ ~normalizeThrows(chatReq)
    /\ IF requestProviderId(chatReq) = Null THEN availability = NotChecked
       ELSE \E ok \in BOOLEAN :
              /\ availability = getProviderAvailability(requestProviderId(chatReq), env, ok)
              /\ validateSelection(availability, requestModel(chatReq)) = NoResponse
    /\ chatResp = NoResponse
    /\ streaming = Null
    /\ forwarded = NotForwarded
    /\ controller = NoStream

====
